---- MODULE Spec2Model ----
(***************************************************************************)
(* Model of the vnix cooperative task kernel (src/src/vnix/core/kern.rs):  *)
(* the kernel state behind the global spin mutex, the task registry, the   *)
(* scheduler loop of Kern::run and the coroutines the scheduler drives     *)
(* (handlers of src/src/vnix/serv: test services, sys.task operators).     *)
(*                                                                         *)
(* The scheduler is single-threaded: between two of its own steps nothing  *)
(* else runs, so one action is one iteration of the `for` loop of          *)
(* Kern::run (signal check, resume of one coroutine up to its next yield   *)
(* or completion, result push), or the drain of tasks_queue.               *)
(*                                                                         *)
(* What a handler does depends on the unit of its message; the unit is     *)
(* abstracted, so a data dependent branch of a handler is a choice the     *)
(* action draws with \E.                                                   *)
(*                                                                         *)
(* The calls of the kernel API that do not go through the scheduler have   *)
(* their own specifications: SpecUsr (Kern::reg_usr), SpecSend (Usr::sign, *)
(* Usr::verify, Kern::msg and the path of a message through Kern::send),   *)
(* SpecFind (UnitAs::as_map_find) and SpecPool (the interning of units by  *)
(* KernDataPool::new_or_get).  There units are trees, keys, signatures and *)
(* hashes are symbolic, and `call` records the last call and its result.   *)
(*                                                                         *)
(* SpecTask runs the same scheduler over requests of sys.task              *)
(* (src/src/vnix/serv/sys/task.rs): there the units are trees, a resume    *)
(* runs the handler of the service up to its next yield, `msgs` keeps the  *)
(* message each task completed with and `hist` the tasks registered, by    *)
(* whom, and the kernel before and after the last segment.                 *)
(***************************************************************************)
EXTENDS Integers, Sequences, FiniteSets, TLC

\* ------------------------------------------------------------------ bounds
\* ids handed out by reg_task are capped: a handler registers a task only
\* while last_task_id < MaxTasks
MaxTasks == 3
\* tasks the boot code registers before it calls kern.run
MaxBoot == 2
\* yields a test handler makes before it completes
MaxYield == 1
\* services a chain request pipes its message through
MaxChain == 1

\* ------------------------------------------------------------------ values
NoId == -1
Ids == 0 .. (MaxTasks - 1)

\* TaskSig has the single variant Kill
Kill == "Kill"

\* the services a TaskRun(unit, serv) of the model addresses
Kinds == {"dumb", "sep", "chain", "kill"}

\* terminal outcome of a coroutine: Maybe<Msg, KernErr>
Outcomes == {"Ok", "Err"}

\* ------------------------------------------------------------------ helpers
RECURSIVE DrainFilter(_, _)
\* Vec::drain_filter(pred) dropped after .next(): kern.rs is built with the
\* toolchain that still names it drain_filter, whose Drop runs the filter to
\* the end, so every matching element leaves the vector; the closures of
\* kern.rs all match on the id.  SeqOfId: the elements kept.
DrainFilter(s, id) ==
    IF s = <<>> THEN <<>>
    ELSE IF Head(s)[1] = id THEN DrainFilter(Tail(s), id)
         ELSE <<Head(s)>> \o DrainFilter(Tail(s), id)

RECURSIVE DrainTasks(_, _)
DrainTasks(s, id) ==
    IF s = <<>> THEN <<>>
    ELSE IF Head(s).id = id THEN DrainTasks(Tail(s), id)
         ELSE <<Head(s)>> \o DrainTasks(Tail(s), id)

RECURSIVE FindFirst(_, _)
\* iter().find(|(i, _)| *i == id): the first pair of the id, or <<>>
FindFirst(s, id) ==
    IF s = <<>> THEN <<>>
    ELSE IF Head(s)[1] = id THEN Head(s)
         ELSE FindFirst(Tail(s), id)

SeqIds(s) == {s[j][1] : j \in 1 .. Len(s)}
Count(s, id) == Cardinality({j \in 1 .. Len(s) : s[j][1] = id})
IdsOf(ts) == [j \in 1 .. Len(ts) |-> ts[j].id]
TaskIds(s) == {s[j].id : j \in 1 .. Len(s)}

\* ------------------------------------------------------------------ state
VARIABLES
    kern,       \* the Kern behind kern_mtx: the fields of struct Kern the
                \* scheduler uses, and the state of the spin mutex itself
    pc,         \* where the boot code / Kern::run stands
    runs,       \* local `runs` of Kern::run: the working set (task, (run, done))
    i,          \* position of the `for` loop of Kern::run in runs (1-based)
    pushes,     \* history: per task id, how often run pushed to task_result
    killed,     \* history: ids whose Kill was processed before they were done
    passLog,    \* history: ids resumed so far in the current pass, in order
    lastGet,    \* history: the last get_task_result call that found an entry
    earlyHit,   \* history: a poll in the segment that registered the child hit
    orphans,    \* history: children awaited by a task when it was killed
    lastEvt,    \* history: what the last step of the for loop did
    issued,     \* history: the ids reg_task gave to tasks, in call order
    stale,      \* history: ids that ended the last pass alive with a signal
    users,      \* Kern.users: the registered users, in registration order
    call,       \* history: the last call of the kernel API, its input and result
    pool,       \* Kern.data_pool: the tables of KernDataPool
    msgs,       \* per task id, the Option<Msg> of the outcome pushed to task_result
    hist,       \* history of the sys.task requests: tasks registered, segments run
    services    \* Kern.services: the registered services, in registration order

vars == <<kern, pc, runs, i, pushes, killed, passLog, lastGet, earlyHit, orphans, lastEvt,
          issued, stale, users, call, pool, msgs, hist, services>>

\* the state the scheduler leaves alone
api == <<users, call, pool>>

\* the messages of the outcomes, the history of the requests and the services
ops == <<msgs, hist, services>>

\* the state of the scheduler loop, left alone by the calls of the kernel API
sched == <<pc, runs, i, pushes, killed, passLog, lastGet, earlyHit, orphans, lastEvt,
           issued, stale, msgs, hist, services>>

\* ------------------------------------------------------------------ mutex
\* spin::Mutex::lock: not reentrant; taking it while it is held spins forever
lock(k) ==
    IF k.locked THEN [k EXCEPT !.spin = TRUE]
    ELSE [k EXCEPT !.locked = TRUE]

\* drop of the MutexGuard
unlock(k) ==
    IF k.spin THEN k ELSE [k EXCEPT !.locked = FALSE]

\* `mtx.lock().f(..)`: the guard is a temporary of the statement and is
\* dropped at its end
WithLock(k, F(_)) ==
    LET g == lock(k) IN IF g.spin THEN g ELSE unlock(F(g))

\* ------------------------------------------------------------------ kernel
\* Kern::new
KernNew ==
    [ last_task_id |-> 0,
      curr_task_id |-> 0,
      tasks_queue |-> <<>>,
      tasks_running |-> <<>>,
      tasks_signals |-> <<>>,
      task_result |-> <<>>,
      locked |-> FALSE,
      spin |-> FALSE ]

\* Task::new(usr, name, id, parent_id, run)
TaskNew(usr, name, id, parent_id, run) ==
    [usr |-> usr, name |-> name, id |-> id, parent_id |-> parent_id, run |-> run]

\* reg_task that forgets `self.last_task_id += 1`
reg_task_no_bump(k, usr, name, run) ==
    [ kern |-> [k EXCEPT !.tasks_queue =
                   Append(@, TaskNew(usr, name, k.last_task_id, k.curr_task_id, run))],
      res |-> "Ok", id |-> k.last_task_id ]

\* reg_task that runs the task as a nested call and records its outcome at once
reg_task_sync(k, usr, name, run) ==
    [ kern |-> [k EXCEPT !.tasks_queue =
                   Append(@, TaskNew(usr, name, k.last_task_id, k.curr_task_id, run)),
                         !.last_task_id = @ + 1,
                         !.task_result = Append(@, <<k.last_task_id, "Ok">>)],
      res |-> "Ok", id |-> k.last_task_id ]

\* reg_task that makes every task its own parent
reg_task_own(k, usr, name, run) ==
    [ kern |-> [k EXCEPT !.tasks_queue =
                   Append(@, TaskNew(usr, name, k.last_task_id, k.last_task_id, run)),
                         !.last_task_id = @ + 1],
      res |-> "Ok", id |-> k.last_task_id ]

\* reg_task that makes every task a child of task 0
reg_task_root(k, usr, name, run) ==
    [ kern |-> [k EXCEPT !.tasks_queue =
                   Append(@, TaskNew(usr, name, k.last_task_id, 0, run)),
                         !.last_task_id = @ + 1],
      res |-> "Ok", id |-> k.last_task_id ]

\* Kern::reg_task: push to tasks_queue, bump last_task_id; the id returned
\* is last_task_id - 1
reg_task(k, usr, name, run) ==
    LET k1 == [k EXCEPT !.tasks_queue =
                   Append(@, TaskNew(usr, name, k.last_task_id, k.curr_task_id, run))]
        k2 == [k1 EXCEPT !.last_task_id = @ + 1]
    IN  [kern |-> k2, res |-> "Ok", id |-> k2.last_task_id - 1]

\* task_sig that looks for the task and posts nothing when there is none
task_sig_found(k, id, sig) ==
    IF id \in TaskIds(k.tasks_queue) \cup TaskIds(k.tasks_running)
    THEN [k EXCEPT !.tasks_signals = Append(@, <<id, sig>>)]
    ELSE k

\* Kern::task_sig
task_sig(k, id, sig) ==
    [k EXCEPT !.tasks_signals = Append(@, <<id, sig>>)]

\* get_task_result whose filter takes the outcomes of the earlier tasks too
get_task_result_upto(k, id) ==
    [ kern |-> [k EXCEPT !.task_result = SelectSeq(@, LAMBDA e : e[1] > id)],
      out |-> IF FindFirst(k.task_result, id) = <<>> THEN <<>>
              ELSE <<FindFirst(k.task_result, id)[2]>> ]

\* get_task_result that drains without a filter
get_task_result_clear(k, id) ==
    [ kern |-> [k EXCEPT !.task_result = <<>>],
      out |-> IF FindFirst(k.task_result, id) = <<>> THEN <<>>
              ELSE <<FindFirst(k.task_result, id)[2]>> ]

\* Kern::get_task_result: drain_filter(|(i, _)| *i == id).next().map(|(_, msg)| msg)
\* out is <<>> for None and <<outcome>> for Some(outcome)
get_task_result(k, id) ==
    LET hit == FindFirst(k.task_result, id)
    IN  [ kern |-> [k EXCEPT !.task_result = DrainFilter(@, id)],
          out |-> IF hit = <<>> THEN <<>> ELSE <<hit[2]>> ]

\* write_str that hands the terminal's error on instead of `.ok()`
write_str_err(printed) == IF printed THEN "Ok" ELSE "Err"

\* impl Write for Kern, write_str: term.lock().print(s, self).ok(); Ok(())
\* printed: whether the terminal driver printed the string
write_str(printed) == "Ok"

\* writeln!(kern, ..).map_err(..)?  -- Err makes the caller return
writeln(printed) == write_str(printed)

\* ------------------------------------------------------------------ coroutines
\* A coroutine of the working set: pc is "start" before its first resume and
\* "run" while it is suspended at a yield; n counts the yields a test handler
\* made or the children a chain registered; wait is the id of the child whose
\* result the coroutine polls for (task_result!), NoId when it awaits none.
CoNew == [pc |-> "start", n |-> 0, wait |-> NoId]

\* Task::run(&kern_mtx): builds the coroutine; nothing of it runs, and no
\* lock is taken, before the first resume
TaskRun(t) == CoNew

\* send whose guard `tmp` outlives the call (kept by the returned coroutine)
send_hold(k, res) ==
    [ kern |-> IF res = "Err" THEN WithLock(k, LAMBDA g : g)
               ELSE lock(WithLock(k, LAMBDA g : g)),
      res |-> res ]

\* Kern::send(mtx, serv, msg), run by the task coroutine in its first segment:
\* mtx.lock().get_usr(..)? takes and drops the guard; `tmp = mtx.lock()` holds
\* it for get_serv / msg / the handler call and drops it at every return.
\* res: "Err" when get_usr, verify, get_serv or msg fails
send(k, res) ==
    LET k1 == WithLock(k, LAMBDA g : g)
        k2 == IF res = "Err" THEN k1 ELSE WithLock(k1, LAMBDA g : g)
    IN  [kern |-> k2, res |-> res]

\* first segment of every task: its message goes through send
Prologue(k, co) == IF co.pc = "start" THEN send(k, "Ok").kern ELSE k

NoGet == [id |-> NoId, before |-> <<>>, after |-> <<>>, out |-> <<>>]

\* result of one resume: GeneratorState::Yielded ("Yielded") or
\* Complete(Ok) / Complete(Err), the kernel as the segment leaves it, the
\* coroutine, and for the history the get_task_result calls of the segment
Seg(k, co, st, get, early) ==
    [kern |-> k, co |-> co, st |-> st, get |-> get, early |-> early]

\* task_result!(id, kern), one turn of its loop:
\* if let Some(res) = kern.lock().get_task_result(id) { break res } yield
Poll(k, id) ==
    IF lock(k).spin THEN [kern |-> lock(k), out |-> <<>>]
    ELSE [kern |-> unlock(get_task_result(lock(k), id).kern),
          out |-> get_task_result(lock(k), id).out]

\* test services (serv/test.rs, Dumb / DumbLoop): write under the lock, yield,
\* and in the end Ok(None); a failing write ends the coroutine with Err
ResumeDumb(k, t, co, ch) ==
    LET k0 == Prologue(k, co)
    IN  CASE ch.act = "yield" ->
               Seg(WithLock(k0, LAMBDA g : g),
                   [co EXCEPT !.pc = "run", !.n = @ + 1], "Yielded", NoGet, <<>>)
          [] ch.act = "ok" ->
               Seg(k0, [co EXCEPT !.pc = "end"], "Ok", NoGet, <<>>)
          [] OTHER ->
               Seg(send(k, "Err").kern, [co EXCEPT !.pc = "end"], "Err", NoGet, <<>>)

\* sys.task, separate: reg_task of the stream under the lock, no await
ResumeSep(k, t, co, ch) ==
    LET k0 == Prologue(k, co)
    IN  CASE ch.act = "reg" ->
               Seg(WithLock(k0, LAMBDA g : reg_task(g, t.usr, "sys.task", ch.kind).kern),
                   [co EXCEPT !.pc = "end"], "Ok", NoGet, <<>>)
          [] ch.act = "ok" ->
               Seg(k0, [co EXCEPT !.pc = "end"], "Ok", NoGet, <<>>)
          [] OTHER ->
               Seg(send(k, "Err").kern, [co EXCEPT !.pc = "end"], "Err", NoGet, <<>>)

\* sys.task, signal: ("kill", id) posts Kill for the id
ResumeKill(k, t, co, ch) ==
    LET k0 == Prologue(k, co)
    IN  CASE ch.act = "sig" ->
               Seg(WithLock(k0, LAMBDA g : task_sig(g, ch.id, Kill)),
                   [co EXCEPT !.pc = "end"], "Ok", NoGet, <<>>)
          [] OTHER ->
               Seg(send(k, "Err").kern, [co EXCEPT !.pc = "end"], "Err", NoGet, <<>>)

\* outcome of the first poll of task_result!(id, kern), made in the segment
\* that registered the child id: absent, the coroutine yields and waits
ChainWait(p, id, co, get) ==
    IF p.out = <<>>
    THEN Seg(p.kern, [pc |-> "run", n |-> co.n + 1, wait |-> id], "Yielded", get, p.out)
    ELSE Seg(p.kern, [pc |-> "end", n |-> co.n + 1, wait |-> NoId], p.out[1], get, p.out)

\* let id = kern.lock().reg_task(&_ath, "sys.task", run)?;
\* let u = maybe_ok!(task_result!(id, kern)?);
ChainReg(r, co, get) ==
    ChainWait(Poll(unlock(r.kern), r.id), r.id, co, get)

\* sys.task, chain, the body of `for p in lst`: reg_task for the next
\* service, then task_result!(id, kern); after the last service the chain
\* completes
ChainNext(k, t, co, ch, get) ==
    IF ch.act = "reg"
    THEN IF lock(k).spin
         THEN Seg(lock(k), co, "Yielded", get, <<>>)
         ELSE ChainReg(reg_task(lock(k), t.usr, "sys.task", ch.kind), co, get)
    ELSE Seg(k, [co EXCEPT !.pc = "end", !.wait = NoId], "Ok", get, <<>>)

\* the coroutine awaits the child co.wait: the poll p of this segment found
\* nothing (yield), a child that ended with Err (`?` ends the chain with
\* it), or a message, with which the loop goes on
ChainPolled(p, get, t, co, ch) ==
    IF p.out = <<>>
    THEN Seg(p.kern, co, "Yielded", get, <<>>)
    ELSE IF p.out[1] = "Err"
    THEN Seg(p.kern, [co EXCEPT !.pc = "end", !.wait = NoId], "Err", get, <<>>)
    ELSE ChainNext(p.kern, t, co, ch, get)

GetOf(id, k, p) ==
    [id |-> id, before |-> k.task_result, after |-> p.kern.task_result, out |-> p.out]

ChainAwait(k0, p, t, co, ch) == ChainPolled(p, GetOf(co.wait, k0, p), t, co, ch)

ChainBody(k0, t, co, ch) ==
    IF co.wait = NoId
    THEN ChainNext(k0, t, co, ch, NoGet)
    ELSE ChainAwait(k0, Poll(k0, co.wait), t, co, ch)

\* sys.task, chain
ResumeChain(k, t, co, ch) ==
    IF ch.act = "err"
    THEN Seg(send(k, "Err").kern, [co EXCEPT !.pc = "end"], "Err", NoGet, <<>>)
    ELSE ChainBody(Prologue(k, co), t, co, ch)

\* Pin::new(run).resume(()): the segment of the coroutine up to its next
\* yield or its completion
Resume(k, t, co, ch) ==
    CASE t.run = "dumb" -> ResumeDumb(k, t, co, ch)
      [] t.run = "sep" -> ResumeSep(k, t, co, ch)
      [] t.run = "kill" -> ResumeKill(k, t, co, ch)
      [] OTHER -> ResumeChain(k, t, co, ch)

Choice(act, kind, id) == [act |-> act, kind |-> kind, id |-> id]

\* what the message of the task lets the segment do
RegChoices(k) ==
    IF k.last_task_id < MaxTasks
    THEN {Choice("reg", kind, NoId) : kind \in Kinds}
    ELSE {}

ErrChoices(co) == IF co.pc = "start" THEN {Choice("err", "dumb", NoId)} ELSE {}

Choices(k, t, co) ==
    CASE t.run = "dumb" ->
            {Choice("ok", "dumb", NoId), Choice("err", "dumb", NoId)}
               \cup (IF co.n < MaxYield THEN {Choice("yield", "dumb", NoId)} ELSE {})
      [] t.run = "sep" ->
            {Choice("ok", "dumb", NoId)} \cup RegChoices(k) \cup ErrChoices(co)
      [] t.run = "kill" ->
            {Choice("sig", "dumb", id) : id \in Ids} \cup ErrChoices(co)
      [] OTHER ->
            IF co.wait # NoId /\ FindFirst(k.task_result, co.wait) = <<>>
            THEN {Choice("ok", "dumb", NoId)}
            ELSE IF co.wait # NoId /\ FindFirst(k.task_result, co.wait)[2] = "Err"
            THEN {Choice("ok", "dumb", NoId)}
            ELSE {Choice("ok", "dumb", NoId)} \cup ErrChoices(co)
                   \cup (IF co.n < MaxChain THEN RegChoices(k) ELSE {})

\* ------------------------------------------------------------------ scheduler
\* an entry (task, (run, done)) of the working set
Entry(t) == [task |-> t, co |-> TaskRun(t), done |-> FALSE]

RECURSIVE PushRunning(_, _)
\* for (task, _) in runs.iter() { kern_mtx.lock().tasks_running.push(task) }
PushRunning(k, ts) ==
    IF ts = <<>> THEN k
    ELSE PushRunning(
            WithLock(k, LAMBDA g : [g EXCEPT !.tasks_running = Append(@, Head(ts))]),
            Tail(ts))

\* Kern::run, head of the outer loop: the queue is cloned and mapped to
\* coroutines under one guard, then cleared, then every task is pushed to
\* tasks_running
DrainQueue(k) ==
    LET g == lock(k)
        ts == g.tasks_queue
        k1 == IF g.spin THEN g ELSE unlock(g)
        k2 == WithLock(k1, LAMBDA h : [h EXCEPT !.tasks_queue = <<>>])
    IN  [kern |-> PushRunning(k2, ts), runs |-> [j \in 1 .. Len(ts) |-> Entry(ts[j])]]

\* "run new tasks" that puts the new coroutines in front of the working set
RunNewTasksFront(k, rs) ==
    IF WithLock(k, LAMBDA g : g).tasks_queue # <<>>
    THEN [kern |-> DrainQueue(WithLock(k, LAMBDA g : g)).kern,
          runs |-> DrainQueue(WithLock(k, LAMBDA g : g)).runs \o rs]
    ELSE [kern |-> WithLock(k, LAMBDA g : g), runs |-> rs]

\* "run new tasks" that forgets the signals no task of the pass took
RunNewTasksClearSigs(k, rs) ==
    LET k0 == WithLock(k, LAMBDA g : [g EXCEPT !.tasks_signals = <<>>])
    IN  IF k0.tasks_queue # <<>>
        THEN LET d == DrainQueue(k0) IN [kern |-> d.kern, runs |-> rs \o d.runs]
        ELSE [kern |-> k0, runs |-> rs]

\* Kern::run, "run new tasks": the same drain, made only when the queue is
\* not empty; the new coroutines are appended to the working set
RunNewTasks(k, rs) ==
    LET k0 == WithLock(k, LAMBDA g : g)
    IN  IF k0.tasks_queue # <<>>
        THEN LET d == DrainQueue(k0) IN [kern |-> d.kern, runs |-> rs \o d.runs]
        ELSE [kern |-> k0, runs |-> rs]

\* the exit test of the pass loop as any(): one done task is enough
AllDoneAny(rs) == \E j \in 1 .. Len(rs) : rs[j].done

\* runs.iter().all(|(_, (_, done))| *done)
AllDone(rs) == \A j \in 1 .. Len(rs) : rs[j].done

HasSig(k, id) == FindFirst(k.tasks_signals, id) # <<>>

\* "check signals" without `*done = true`
CheckSignalsNotDone(k, e, printed) ==
    IF lock(k).spin THEN [kern |-> lock(k), entry |-> e, ret |-> FALSE]
    ELSE [kern |-> unlock([lock(k) EXCEPT
                      !.tasks_running = DrainTasks(@, e.task.id),
                      !.tasks_signals = DrainFilter(@, e.task.id)]),
          entry |-> e, ret |-> FALSE]

\* "check signals" that leaves the task in tasks_running
CheckSignalsNoDrain(k, e, printed) ==
    IF lock(k).spin THEN [kern |-> lock(k), entry |-> e, ret |-> FALSE]
    ELSE [kern |-> unlock([lock(k) EXCEPT
                      !.tasks_signals = DrainFilter(@, e.task.id)]),
          entry |-> [e EXCEPT !.done = TRUE], ret |-> FALSE]

RECURSIVE DrainChildren(_, _)
DrainChildren(s, id) ==
    IF s = <<>> THEN <<>>
    ELSE IF Head(s).parent_id = id /\ Head(s).id # id THEN DrainChildren(Tail(s), id)
         ELSE <<Head(s)>> \o DrainChildren(Tail(s), id)

\* "check signals" whose Kill also takes the children of the task out of
\* tasks_running
CheckSignalsCascade(k, e, printed) ==
    IF lock(k).spin THEN [kern |-> lock(k), entry |-> e, ret |-> FALSE]
    ELSE [kern |-> unlock([lock(k) EXCEPT
                      !.tasks_running = DrainChildren(DrainTasks(@, e.task.id), e.task.id),
                      !.tasks_signals = DrainFilter(@, e.task.id)]),
          entry |-> [e EXCEPT !.done = TRUE], ret |-> FALSE]

\* Kern::run, "check signals" for one entry found with a Kill: log, drain the
\* task from tasks_running, drain the signal, done = true.  ret: the `?` of
\* the writeln returned from run
CheckSignals(k, e, printed) ==
    LET g == lock(k)
        w == writeln(printed)
        g1 == [g EXCEPT !.tasks_running = DrainTasks(@, e.task.id)]
        g2 == [g1 EXCEPT !.tasks_signals = DrainFilter(@, e.task.id)]
    IN  IF g.spin THEN [kern |-> g, entry |-> e, ret |-> FALSE]
        ELSE IF w = "Err" THEN [kern |-> unlock(g), entry |-> e, ret |-> TRUE]
        ELSE [kern |-> unlock(g2), entry |-> [e EXCEPT !.done = TRUE], ret |-> FALSE]

\* completion that leaves the task in tasks_running
CompletedNoDrain(k, w, sg, e) ==
    IF w = "Err"
    THEN [kern |-> k, entry |-> [e EXCEPT !.co = sg.co], ret |-> TRUE, seg |-> sg]
    ELSE [kern |->
            WithLock(k, LAMBDA g : [g EXCEPT !.task_result = Append(@, <<e.task.id, sg.st>>)]),
          entry |-> [e EXCEPT !.co = sg.co, !.done = TRUE],
          ret |-> FALSE, seg |-> sg]

\* Kern::run, on Complete(res): an Err is logged (k is the kernel after the
\* writeln, w its result), (id, res) is pushed to task_result, the task is
\* drained from tasks_running and done = true
Completed(k, w, sg, e) ==
    IF w = "Err"
    THEN [kern |-> k, entry |-> [e EXCEPT !.co = sg.co], ret |-> TRUE, seg |-> sg]
    ELSE [kern |->
            WithLock(
              WithLock(k, LAMBDA g : [g EXCEPT !.task_result = Append(@, <<e.task.id, sg.st>>)]),
              LAMBDA g : [g EXCEPT !.tasks_running = DrainTasks(@, e.task.id)]),
          entry |-> [e EXCEPT !.co = sg.co, !.done = TRUE],
          ret |-> FALSE, seg |-> sg]

\* Kern::run, what follows the resume of entry e, sg being its segment
AfterResume(sg, e, printed) ==
    IF sg.st = "Yielded"
    THEN [kern |-> sg.kern, entry |-> [e EXCEPT !.co = sg.co], ret |-> FALSE, seg |-> sg]
    ELSE IF sg.st = "Err"
    THEN Completed(WithLock(sg.kern, LAMBDA g : g), writeln(printed), sg, e)
    ELSE Completed(sg.kern, "Ok", sg, e)

\* Kern::run, "run task": curr_task_id = task.id, then one resume
RunTask(k, e, ch, printed) ==
    AfterResume(
        Resume(WithLock(k, LAMBDA g : [g EXCEPT !.curr_task_id = e.task.id]),
               e.task, e.co, ch),
        e, printed)

\* where run stands after a step: spinning on the mutex, returned, or on
PcAfter(k, ret, next) ==
    IF k.spin THEN "spin" ELSE IF ret THEN "ret" ELSE next

Evt(kind, id) == [kind |-> kind, id |-> id]

\* ------------------------------------------------------------------ kernel API
\* no call made yet
NoCall == [op |-> "none"]

\* no request handled yet: regs, the tasks registered with the task that
\* registered them; seg, the kernel before and after the last segment; snaps,
\* per task id the tasks_running its first segment saw; errs, the tasks that
\* completed with Err; sigs, the signals posted, each with the last_task_id
\* at the end of the segment that posted it; errv, per task that completed
\* with Err, its KernErr
NoHist ==
    [regs |-> <<>>, seg |-> [id |-> NoId], snaps |-> <<>>, errs |-> {}, sigs |-> <<>>,
     errv |-> <<>>]

\* KernDataPool::new
KernDataPoolNew ==
    [ base |-> <<>>, strings |-> <<>>, paths |-> <<>>, addrs |-> <<>>,
      ints |-> <<>>, decs |-> <<>>, lists |-> <<>>, maps |-> <<>> ]

\* ------------------------------------------------------------------ units
\* Unit constructors (trait UnitNew): a unit is a tagged tree
UnitNone == [t |-> "none"]
UnitStr(s) == [t |-> "str", s |-> s]
UnitPair(a, b) == [t |-> "pair", a |-> a, b |-> b]
UnitList(l) == [t |-> "list", l |-> l]
UnitMap(m) == [t |-> "map", m |-> m]

\* Option<T>: <<>> is None, <<v>> is Some(v)
\* UnitAs::as_str
as_str(u) == IF u.t = "str" THEN <<u.s>> ELSE <<>>

RECURSIVE FindMapLast(_, _)
FindMapLast(m, sch) ==
    IF m = <<>> THEN <<>>
    ELSE IF FindMapLast(Tail(m), sch) # <<>> THEN FindMapLast(Tail(m), sch)
         ELSE IF as_str(Head(m)[1]) = <<sch>> THEN <<Head(m)[2]>> ELSE <<>>

RECURSIVE FindMap(_, _)
\* filter_map(|(u0, u1)| Some((u0.as_str()?, u1))).find_map(|(s, u)| s == sch):
\* pairs whose key is no Str are dropped, the first remaining pair with the
\* key wins
FindMap(m, sch) ==
    IF m = <<>> THEN <<>>
    ELSE IF as_str(Head(m)[1]) = <<sch>> THEN <<Head(m)[2]>>
         ELSE FindMap(Tail(m), sch)

\* as_map_find where a later pair of the key overrides an earlier one
as_map_find_last(u, sch) == IF u.t = "map" THEN FindMapLast(u.m, sch) ELSE <<>>

\* UnitAs::as_map_find
as_map_find(u, sch) == IF u.t = "map" THEN FindMap(u.m, sch) ELSE <<>>

\* ------------------------------------------------------------------ users
\* Result<T, KernErr>
Err(e) == [res |-> "Err", err |-> e]
Ok(v) == [res |-> "Ok", val |-> v]

\* key strings: the base64 of a P-256 scalar and of the SEC1 point derived
\* from it, a string that is no base64, and base64 of bytes that are no key
PrivKeys == {"privA", "privB"}
PubKeys == {"pubA", "pubB"}
NotBase64 == "notb64"
Garbage == "garbage"

\* VerifyingKey::from(&SigningKey)
PubOf(priv) == IF priv = "privA" THEN "pubA" ELSE "pubB"

\* Base64::decode_vec succeeds
Base64Ok(s) == s # NotBase64

\* Usr::guest / Usr::login
UsrGuest(name, pub) == [name |-> name, pub_key |-> pub, priv_key |-> <<>>]
UsrLogin(name, priv, pub) == [name |-> name, pub_key |-> pub, priv_key |-> <<priv>>]

\* Unit::as_bytes, the canonical serialization: injective and deterministic
as_bytes(u) == <<"bytes", u>>

\* Base64(Sha3_256::digest(bytes))
Sha3(b) == <<"sha3", b>>

\* a signature string: enc says whether it is base64 of a well-formed
\* signature ("sig"), base64 of other bytes ("malformed") or no base64
\* ("notb64"); key and m are the private key and the bytes it was made from
Signature(enc, key, m) == [enc |-> enc, key |-> key, m |-> m]

\* sign that signs with an empty key when the user has none
sign_guest_ok(usr, u) ==
    IF usr.priv_key = <<>> THEN Ok(Signature("sig", "", as_bytes(u)))
    ELSE IF ~Base64Ok(usr.priv_key[1]) THEN Err("DecodeFault")
    ELSE IF usr.priv_key[1] \notin PrivKeys THEN Err("CreatePrivKeyFault")
    ELSE Ok(Signature("sig", usr.priv_key[1], as_bytes(u)))

\* Usr::sign
sign(usr, u) ==
    IF usr.priv_key = <<>> THEN Err("SignFault")
    ELSE IF ~Base64Ok(usr.priv_key[1]) THEN Err("DecodeFault")
    ELSE IF usr.priv_key[1] \notin PrivKeys THEN Err("CreatePrivKeyFault")
    ELSE Ok(Signature("sig", usr.priv_key[1], as_bytes(u)))

\* VerifyingKey::verify(&msg, &sign)
EcdsaVerify(pub, b, sig) == sig.m = b /\ sig.key \in PrivKeys /\ PubOf(sig.key) = pub

\* verify that checks the signature before the hash
verify_sign_first(usr, u, sig, hash) ==
    IF sig.enc = "notb64" THEN Err("DecodeFault")
    ELSE IF sig.enc = "malformed" THEN Err("SignVerifyFault")
    ELSE IF ~Base64Ok(usr.pub_key) THEN Err("DecodeFault")
    ELSE IF usr.pub_key \notin PubKeys THEN Err("CreatePubKeyFault")
    ELSE IF ~EcdsaVerify(usr.pub_key, as_bytes(u), sig) THEN Err("SignVerifyFault")
    ELSE IF Sha3(as_bytes(u)) # hash THEN Err("HashVerifyFault")
    ELSE Ok(<<>>)

\* verify that leaves out the signature check
verify_hash_only(usr, u, sig, hash) ==
    IF sig.enc = "notb64" THEN Err("DecodeFault")
    ELSE IF sig.enc = "malformed" THEN Err("SignVerifyFault")
    ELSE IF ~Base64Ok(usr.pub_key) THEN Err("DecodeFault")
    ELSE IF usr.pub_key \notin PubKeys THEN Err("CreatePubKeyFault")
    ELSE IF Sha3(as_bytes(u)) # hash THEN Err("HashVerifyFault")
    ELSE Ok(<<>>)

\* Usr::verify: the signature and the public key are decoded first, then the
\* hash is recomputed and compared, then the signature is verified
verify(usr, u, sig, hash) ==
    IF sig.enc = "notb64" THEN Err("DecodeFault")
    ELSE IF sig.enc = "malformed" THEN Err("SignVerifyFault")
    ELSE IF ~Base64Ok(usr.pub_key) THEN Err("DecodeFault")
    ELSE IF usr.pub_key \notin PubKeys THEN Err("CreatePubKeyFault")
    ELSE IF Sha3(as_bytes(u)) # hash THEN Err("HashVerifyFault")
    ELSE IF ~EcdsaVerify(usr.pub_key, as_bytes(u), sig) THEN Err("SignVerifyFault")
    ELSE Ok(<<>>)

\* Kern.users holds a user of this name / of this name and key / of this key
\* under another name
NameOtherKey(us, usr) ==
    \E j \in 1 .. Len(us) : us[j].name = usr.name /\ us[j].pub_key # usr.pub_key
NameSameKey(us, usr) ==
    \E j \in 1 .. Len(us) : us[j].name = usr.name /\ us[j].pub_key = usr.pub_key
OtherNameKey(us, usr) ==
    \E j \in 1 .. Len(us) : us[j].name # usr.name /\ us[j].pub_key = usr.pub_key

\* reg_usr that looks for the key under another name first
reg_usr_key_first(us, usr) ==
    IF OtherNameKey(us, usr) THEN [users |-> us, res |-> "Err", err |-> "UsrRegWithAnotherName"]
    ELSE IF NameOtherKey(us, usr) THEN [users |-> us, res |-> "Err", err |-> "UsrNameAlreadyReg"]
    ELSE IF NameSameKey(us, usr) THEN [users |-> us, res |-> "Err", err |-> "UsrAlreadyReg"]
    ELSE [users |-> Append(us, usr), res |-> "Ok", err |-> ""]

\* reg_usr without the look for the key under another name
reg_usr_by_name(us, usr) ==
    IF NameOtherKey(us, usr) THEN [users |-> us, res |-> "Err", err |-> "UsrNameAlreadyReg"]
    ELSE IF NameSameKey(us, usr) THEN [users |-> us, res |-> "Err", err |-> "UsrAlreadyReg"]
    ELSE [users |-> Append(us, usr), res |-> "Ok", err |-> ""]

\* Kern::reg_usr: the three checks in the order of the code, then the push
reg_usr(us, usr) ==
    IF NameOtherKey(us, usr) THEN [users |-> us, res |-> "Err", err |-> "UsrNameAlreadyReg"]
    ELSE IF NameSameKey(us, usr) THEN [users |-> us, res |-> "Err", err |-> "UsrAlreadyReg"]
    ELSE IF OtherNameKey(us, usr) THEN [users |-> us, res |-> "Err", err |-> "UsrRegWithAnotherName"]
    ELSE [users |-> Append(us, usr), res |-> "Ok", err |-> ""]

RECURSIVE FindUsr(_, _)
FindUsr(us, ath) ==
    IF us = <<>> THEN <<>>
    ELSE IF Head(us).name = ath THEN <<Head(us)>> ELSE FindUsr(Tail(us), ath)

\* Kern::get_usr: iter().find(|usr| usr.name == ath).ok_or(UsrNotFound)
get_usr(us, ath) ==
    IF FindUsr(us, ath) = <<>> THEN Err("UsrNotFound") ELSE Ok(FindUsr(us, ath)[1])

\* ------------------------------------------------------------------ messages
\* struct Msg: the envelope
Msg(ath, u, sig, hash) == [ath |-> ath, msg |-> u, sign |-> sig, hash |-> hash]

\* Msg::new(usr, u): sign the unit, hash its bytes
MsgNew(usr, u) ==
    IF sign(usr, u).res = "Err" THEN sign(usr, u)
    ELSE Ok(Msg(usr.name, u, sign(usr, u).val, Sha3(as_bytes(u))))

\* Kern::msg: let usr = self.get_usr(ath)?; Msg::new(usr, u)
msg(us, ath, u) ==
    IF get_usr(us, ath).res = "Err" THEN get_usr(us, ath)
    ELSE MsgNew(get_usr(us, ath).val, u)

\* ------------------------------------------------------------------ services
\* Serv::new(name, help, hlr); the handler is named by the service
Serv(name, help) == [name |-> name, help |-> help]

\* reg_serv that takes a service as registered only when its help is the same
reg_serv_same(ss, serv) ==
    IF \E j \in 1 .. Len(ss) : ss[j] = serv
    THEN [services |-> ss, res |-> "Err", err |-> "ServAlreadyReg"]
    ELSE [services |-> Append(ss, serv), res |-> "Ok", err |-> ""]

\* Kern::reg_serv
reg_serv(ss, serv) ==
    IF \E j \in 1 .. Len(ss) : ss[j].name = serv.name
    THEN [services |-> ss, res |-> "Err", err |-> "ServAlreadyReg"]
    ELSE [services |-> Append(ss, serv), res |-> "Ok", err |-> ""]

RECURSIVE RegServs(_, _)
\* vnix_entry: for (name, help, hlr) in services { kern.reg_serv(serv)?; .. }
RegServs(ss, todo) ==
    IF todo = <<>> THEN ss
    ELSE RegServs(reg_serv(ss, Head(todo)).services, Tail(todo))

\* Kern.services after vnix_entry: three of the services it registers
Services ==
    RegServs(<<>>, << Serv("io.term", "help of io.term"),
                      Serv("sys.task", "help of sys.task"),
                      Serv("sys.usr", "help of sys.usr") >>)

RECURSIVE FindServ(_, _)
FindServ(ss, name) ==
    IF ss = <<>> THEN <<>>
    ELSE IF Head(ss).name = name THEN <<Head(ss)>> ELSE FindServ(Tail(ss), name)

\* Kern::get_serv
get_serv(ss, name) ==
    IF FindServ(ss, name) = <<>> THEN Err("ServNotFound") ELSE Ok(FindServ(ss, name)[1])

\* Kern::help_serv: {msg: [names of the services]} as a message of ath
help_serv(us, ss, ath) ==
    msg(us, ath, UnitMap(<< <<UnitStr("msg"),
                              UnitList([j \in 1 .. Len(ss) |-> UnitStr(ss[j].name)])>> >>))

\* ------------------------------------------------------------------ send
\* topic that looks at maps only
TopicOfMap(u) ==
    IF as_map_find(u, "help") # <<>> /\ as_str(as_map_find(u, "help")[1]) # <<>>
    THEN as_str(as_map_find(u, "help")[1])
    ELSE <<>>

\* Kern::send, check help: the topic is the Str under key "help" of a map,
\* else the unit itself when it is a Str, else None
Topic(u) ==
    IF as_map_find(u, "help") # <<>> /\ as_str(as_map_find(u, "help")[1]) # <<>>
    THEN as_str(as_map_find(u, "help")[1])
    ELSE as_str(u)

\* what send returns on success: the help thread, the thread that lists the
\* services, or the coroutine (serv.hlr)(msg, ..) of the service's handler
Co(kind, serv, m, help) == [kind |-> kind, serv |-> serv, msg |-> m, help |-> help]

\* Kern::send, match topic.as_str() and the call of the handler
Dispatch(sv, m, help) ==
    IF Topic(m.msg) \in {<<"info">>, <<"help">>} THEN Ok(Co("help", sv.name, m, help))
    ELSE IF Topic(m.msg) = <<"serv">> THEN Ok(Co("serv", sv.name, m, help))
    ELSE Ok(Co("hlr", sv.name, m, help))

\* the unit of the help answer of a service
HelpUnit(sv) == UnitMap(<< <<UnitStr("msg"), UnitStr(sv.help)>> >>)

\* Kern::send, prepare msg: the help answer is built and signed as the
\* sender before the topic is looked at; `?` returns its error
Prepare(us, sv, m) ==
    IF msg(us, m.ath, HelpUnit(sv)).res = "Err" THEN msg(us, m.ath, HelpUnit(sv))
    ELSE Dispatch(sv, m, msg(us, m.ath, HelpUnit(sv)).val)

\* Kern::send, the path of the message: get_usr, verify, get_serv, the help
\* answer, the topic, the handler
send_msg(us, ss, serv, m) ==
    IF get_usr(us, m.ath).res = "Err" THEN get_usr(us, m.ath)
    ELSE IF verify(get_usr(us, m.ath).val, m.msg, m.sign, m.hash).res = "Err"
         THEN verify(get_usr(us, m.ath).val, m.msg, m.sign, m.hash)
    ELSE IF get_serv(ss, serv).res = "Err" THEN get_serv(ss, serv)
    ELSE Prepare(us, get_serv(ss, serv).val, m)

\* the threads of send run to their end: yield; Ok(Some(help_msg)), and
\* let out = mtx.lock().help_serv(&msg.ath).map(|m| Some(m)); yield; out
CoComplete(co, us, ss) ==
    IF co.kind = "help" THEN Ok(<<co.help>>)
    ELSE IF help_serv(us, ss, co.msg.ath).res = "Err" THEN help_serv(us, ss, co.msg.ath)
    ELSE Ok(<<help_serv(us, ss, co.msg.ath).val>>)

\* ------------------------------------------------------------------ data pool
\* An Rc the pool owns is named by its position in the pool's table; a unit
\* is either a tree the caller allocated (UnitStr, UnitPair, ..) or
\* Unit::share of an entry of pool.base.  An entry of pool.base is a UnitBase
\* whose inner Rc names an entry of strings / lists / maps / addrs.
Shared(j) == [t |-> "h", i |-> j]
PoolStr(rc) == [t |-> "pstr", rc |-> rc]
PoolList(rc) == [t |-> "plist", rc |-> rc]
PoolMap(rc) == [t |-> "pmap", rc |-> rc]
UnitStream(u, serv, addr) == [t |-> "stream", u |-> u, serv |-> serv, addr |-> addr]
PoolStream(u, serv, addr) == [t |-> "pstream", u |-> u, serv |-> serv, addr |-> addr]

RECURSIVE Val(_, _)
\* what derive(PartialEq) compares: the tree a unit stands for, every Rc
\* followed to its content
Val(p, u) ==
    CASE u.t = "h" -> Val(p, p.base[u.i])
      [] u.t = "pstr" -> UnitStr(p.strings[u.rc])
      [] u.t = "pair" -> UnitPair(Val(p, u.a), Val(p, u.b))
      [] u.t = "plist" ->
           UnitList([j \in 1 .. Len(p.lists[u.rc]) |-> Val(p, p.lists[u.rc][j])])
      [] u.t = "list" -> UnitList([j \in 1 .. Len(u.l) |-> Val(p, u.l[j])])
      [] u.t = "pmap" ->
           UnitMap([j \in 1 .. Len(p.maps[u.rc]) |->
                       <<Val(p, p.maps[u.rc][j][1]), Val(p, p.maps[u.rc][j][2])>>])
      [] u.t = "map" ->
           UnitMap([j \in 1 .. Len(u.m) |-> <<Val(p, u.m[j][1]), Val(p, u.m[j][2])>>])
      [] u.t = "pstream" ->
           UnitStream(Val(p, u.u), p.strings[u.serv], p.addrs[u.addr])
      [] u.t = "stream" -> UnitStream(Val(p, u.u), u.serv, u.addr)
      [] OTHER -> u

\* iter().position of the first element for which hit holds, 0 for None
FirstAt(n, hit(_)) ==
    IF \E j \in 1 .. n : hit(j)
    THEN CHOOSE j \in 1 .. n : hit(j) /\ \A m \in 1 .. (j - 1) : ~hit(m)
    ELSE 0

\* new_or_find_str / _addr: find by content, else push a new Rc
new_or_find_str(p, str) ==
    IF FirstAt(Len(p.strings), LAMBDA j : p.strings[j] = str) # 0
    THEN [pool |-> p, rc |-> FirstAt(Len(p.strings), LAMBDA j : p.strings[j] = str)]
    ELSE [pool |-> [p EXCEPT !.strings = Append(@, str)], rc |-> Len(p.strings) + 1]

new_or_find_addr(p, addr) ==
    IF FirstAt(Len(p.addrs), LAMBDA j : p.addrs[j] = addr) # 0
    THEN [pool |-> p, rc |-> FirstAt(Len(p.addrs), LAMBDA j : p.addrs[j] = addr)]
    ELSE [pool |-> [p EXCEPT !.addrs = Append(@, addr)], rc |-> Len(p.addrs) + 1]

\* new_or_find_ub that never looks for an equal entry
new_or_find_ub_push(p, b) ==
    [pool |-> [p EXCEPT !.base = Append(@, b)], u |-> Shared(Len(p.base) + 1)]

\* new_or_find_ub: the first entry of base equal to the UnitBase, else a new
\* Rc of its clone; the unit returned is Unit::share of the entry
new_or_find_ub(p, b) ==
    IF FirstAt(Len(p.base), LAMBDA j : Val(p, p.base[j]) = Val(p, b)) # 0
    THEN [pool |-> p,
          u |-> Shared(FirstAt(Len(p.base), LAMBDA j : Val(p, p.base[j]) = Val(p, b)))]
    ELSE [pool |-> [p EXCEPT !.base = Append(@, b)], u |-> Shared(Len(p.base) + 1)]

RECURSIVE new_or_get(_, _)
RECURSIVE InternAll(_, _)
\* lst.iter().map(|u| self.new_or_get(u.clone())).collect(): the elements
\* are interned from the first to the last
InternAll(p, q) ==
    IF q = <<>> THEN [pool |-> p, us |-> <<>>]
    ELSE LET h == new_or_get(p, Head(q))
             r == InternAll(h.pool, Tail(q))
         IN  [pool |-> r.pool, us |-> <<h.u>> \o r.us]

RECURSIVE InternPairs(_, _)
\* map.iter().map(|(u0, u1)| (self.new_or_get(u0), self.new_or_get(u1))).collect()
InternPairs(p, m) ==
    IF m = <<>> THEN [pool |-> p, us |-> <<>>]
    ELSE LET h0 == new_or_get(p, Head(m)[1])
             h1 == new_or_get(h0.pool, Head(m)[2])
             r == InternPairs(h1.pool, Tail(m))
         IN  [pool |-> r.pool, us |-> << <<h0.u, h1.u>> >> \o r.us]

\* the units of a list / of the pairs of a map, as trees
ValList(p, lst) == [j \in 1 .. Len(lst) |-> Val(p, lst[j])]
ValPairs(p, m) == [j \in 1 .. Len(m) |-> <<Val(p, m[j][1]), Val(p, m[j][2])>>]

\* new_or_find_list that stores the caller's list as it is on a miss
new_or_find_list_raw(p, lst) ==
    IF FirstAt(Len(p.lists), LAMBDA j : ValList(p, p.lists[j]) = ValList(p, lst)) # 0
    THEN [pool |-> p,
          rc |-> FirstAt(Len(p.lists), LAMBDA j : ValList(p, p.lists[j]) = ValList(p, lst))]
    ELSE [pool |-> [p EXCEPT !.lists = Append(@, lst)], rc |-> Len(p.lists) + 1]

\* new_or_find_list: the first equal list of the table; on a miss the
\* elements are interned and the list of the interned elements is pushed
new_or_find_list(p, lst) ==
    IF FirstAt(Len(p.lists), LAMBDA j : ValList(p, p.lists[j]) = ValList(p, lst)) # 0
    THEN [pool |-> p,
          rc |-> FirstAt(Len(p.lists), LAMBDA j : ValList(p, p.lists[j]) = ValList(p, lst))]
    ELSE LET r == InternAll(p, lst)
         IN  [pool |-> [r.pool EXCEPT !.lists = Append(@, r.us)],
              rc |-> Len(r.pool.lists) + 1]

\* new_or_find_map
new_or_find_map(p, m) ==
    IF FirstAt(Len(p.maps), LAMBDA j : ValPairs(p, p.maps[j]) = ValPairs(p, m)) # 0
    THEN [pool |-> p,
          rc |-> FirstAt(Len(p.maps), LAMBDA j : ValPairs(p, p.maps[j]) = ValPairs(p, m))]
    ELSE LET r == InternPairs(p, m)
         IN  [pool |-> [r.pool EXCEPT !.maps = Append(@, r.us)],
              rc |-> Len(r.pool.maps) + 1]

\* u.get_base(): the UnitBase of a unit
get_base(p, u) == IF u.t = "h" THEN p.base[u.i] ELSE u

\* the parts of the Stream: msg, serv, addr are interned in this order
InternStream(p, b) ==
    LET m == new_or_get(p, b.u)
        sv == new_or_find_str(m.pool, IF b.t = "pstream" THEN p.strings[b.serv] ELSE b.serv)
        ad == new_or_find_addr(sv.pool, IF b.t = "pstream" THEN p.addrs[b.addr] ELSE b.addr)
    IN  new_or_find_ub(ad.pool, PoolStream(m.u, sv.rc, ad.rc))

\* the two units of a Pair are interned from left to right
InternPair(p, b) ==
    LET h0 == new_or_get(p, b.a)
        h1 == new_or_get(h0.pool, b.b)
    IN  new_or_find_ub(h1.pool, UnitPair(h0.u, h1.u))

\* KernDataPool::new_or_get (Kern::new_unit): the match on the variant, then
\* Unit::share(self.new_or_find_ub(&base))
new_or_get(p, u) ==
    LET b == get_base(p, u)
    IN  CASE b.t \in {"str", "pstr"} ->
               LET r == new_or_find_str(p, IF b.t = "pstr" THEN p.strings[b.rc] ELSE b.s)
               IN  new_or_find_ub(r.pool, PoolStr(r.rc))
          [] b.t \in {"stream", "pstream"} -> InternStream(p, b)
          [] b.t = "pair" -> InternPair(p, b)
          [] b.t \in {"list", "plist"} ->
               LET r == new_or_find_list(p, IF b.t = "plist" THEN p.lists[b.rc] ELSE b.l)
               IN  new_or_find_ub(r.pool, PoolList(r.rc))
          [] b.t \in {"map", "pmap"} ->
               LET r == new_or_find_map(p, IF b.t = "pmap" THEN p.maps[b.rc] ELSE b.m)
               IN  new_or_find_ub(r.pool, PoolMap(r.rc))
          [] OTHER -> new_or_find_ub(p, b)

\* ------------------------------------------------------------------ actions
Init ==
    /\ kern = KernNew
    /\ pc = "boot"
    /\ runs = <<>>
    /\ i = 1
    /\ pushes = [id \in Ids |-> 0]
    /\ killed = {}
    /\ passLog = <<>>
    /\ lastGet = NoGet
    /\ earlyHit = FALSE
    /\ orphans = {}
    /\ lastEvt = Evt("none", NoId)
    /\ issued = <<>>
    /\ stale = {}
    /\ users = <<>>
    /\ call = NoCall
    /\ pool = KernDataPoolNew
    /\ msgs = <<>>
    /\ hist = NoHist
    /\ services = Services

\* vnix_entry: kern.reg_task(&_super.name, "init.load", run)
BootRegTask ==
    /\ pc = "boot"
    /\ kern.last_task_id < MaxBoot
    /\ \E kind \in Kinds : kern' = reg_task(kern, "super", "init.load", kind).kern
    /\ issued' = issued \o IdsOf(SubSeq(kern'.tasks_queue, Len(kern.tasks_queue) + 1,
                                         Len(kern'.tasks_queue)))
    /\ UNCHANGED <<pc, runs, i, pushes, killed, passLog, lastGet, earlyHit, orphans, lastEvt,
                   stale>>
    /\ UNCHANGED api
    /\ UNCHANGED ops

\* vnix_entry: kern.run() -- Mutex::new(self)
KernRun ==
    /\ pc = "boot"
    /\ pc' = "loop"
    /\ UNCHANGED <<kern, runs, i, pushes, killed, passLog, lastGet, earlyHit, orphans, lastEvt,
                   issued, stale>>
    /\ UNCHANGED api
    /\ UNCHANGED ops

\* Kern::run, head of the outer loop
Drain ==
    /\ pc = "loop"
    /\ LET d == DrainQueue(kern)
       IN  /\ kern' = d.kern
           /\ runs' = d.runs
           /\ pc' = PcAfter(d.kern, FALSE, "for")
    /\ i' = 1
    /\ passLog' = <<>>
    /\ lastEvt' = Evt("none", NoId)
    /\ stale' = {}
    /\ UNCHANGED <<pushes, killed, lastGet, earlyHit, orphans, issued>>
    /\ UNCHANGED api
    /\ UNCHANGED ops

\* one iteration of the for loop: the entry has a signal
StepKill ==
    /\ pc = "for"
    /\ i <= Len(runs)
    /\ HasSig(kern, runs[i].task.id)
    /\ \E printed \in BOOLEAN :
          LET e == runs[i]
              r == CheckSignals(kern, e, printed)
          IN  /\ kern' = r.kern
              /\ runs' = [runs EXCEPT ![i] = r.entry]
              /\ pc' = PcAfter(r.kern, r.ret, "for")
              /\ killed' = IF e.done THEN killed ELSE killed \cup {e.task.id}
              /\ orphans' = IF e.done \/ e.co.wait = NoId THEN orphans
                            ELSE orphans \cup {e.co.wait}
              /\ lastEvt' = Evt("kill", e.task.id)
    /\ i' = i + 1
    /\ UNCHANGED <<pushes, passLog, lastGet, earlyHit, issued, stale>>
    /\ UNCHANGED api
    /\ UNCHANGED ops

\* one iteration of the for loop: no signal, the entry is done
StepSkip ==
    /\ pc = "for"
    /\ i <= Len(runs)
    /\ ~HasSig(kern, runs[i].task.id)
    /\ runs[i].done
    /\ kern' = WithLock(kern, LAMBDA g : g)
    /\ pc' = PcAfter(kern', FALSE, "for")
    /\ i' = i + 1
    /\ lastEvt' = Evt("skip", runs[i].task.id)
    /\ UNCHANGED <<runs, pushes, killed, passLog, lastGet, earlyHit, orphans, issued, stale>>
    /\ UNCHANGED api
    /\ UNCHANGED ops

\* the history after the resume of entry e with result r
Resumed(e, r) ==
    /\ kern' = r.kern
    /\ runs' = [runs EXCEPT ![i] = r.entry]
    /\ pc' = PcAfter(r.kern, r.ret, "for")
    /\ pushes' = [pushes EXCEPT ![e.task.id] =
                      @ + Count(r.kern.task_result, e.task.id)
                        - Count(r.seg.kern.task_result, e.task.id)]
    /\ issued' = issued \o IdsOf(SubSeq(r.kern.tasks_queue, Len(kern.tasks_queue) + 1,
                                         Len(r.kern.tasks_queue)))
    /\ passLog' = Append(passLog, e.task.id)
    /\ lastGet' = IF r.seg.get = NoGet THEN lastGet ELSE r.seg.get
    /\ earlyHit' = (earlyHit \/ r.seg.early # <<>>)
    /\ lastEvt' = Evt(r.seg.st, e.task.id)

\* one iteration of the for loop: no signal, the coroutine is resumed
StepResume ==
    /\ pc = "for"
    /\ i <= Len(runs)
    /\ ~HasSig(kern, runs[i].task.id)
    /\ ~runs[i].done
    /\ \E ch \in Choices(kern, runs[i].task, runs[i].co), printed \in BOOLEAN :
          Resumed(runs[i], RunTask(WithLock(kern, LAMBDA g : g), runs[i], ch, printed))
    /\ i' = i + 1
    /\ UNCHANGED <<killed, orphans, stale>>
    /\ UNCHANGED api
    /\ UNCHANGED ops

\* end of a pass: new tasks join the working set; the inner loop is left
\* when every entry is done
EndPass ==
    /\ pc = "for"
    /\ i > Len(runs)
    /\ LET n == RunNewTasks(kern, runs)
       IN  /\ kern' = n.kern
           /\ runs' = n.runs
           /\ pc' = PcAfter(n.kern, FALSE, IF AllDone(n.runs) THEN "loop" ELSE "for")
    /\ i' = 1
    /\ passLog' = <<>>
    /\ lastEvt' = Evt("none", NoId)
    /\ stale' = {runs[j].task.id : j \in {n \in 1 .. Len(runs) :
                      ~runs[n].done /\ HasSig(kern, runs[n].task.id)}}
    /\ UNCHANGED <<pushes, killed, lastGet, earlyHit, orphans, issued>>
    /\ UNCHANGED api
    /\ UNCHANGED ops

Next ==
    \/ BootRegTask
    \/ KernRun
    \/ Drain
    \/ StepKill
    \/ StepSkip
    \/ StepResume
    \/ EndPass

Spec == Init /\ [][Next]_vars

\* ------------------------------------------------------------------ users API
\* users a caller may hand to reg_usr: Usr::guest and Usr::login of sys.usr
MaxUsers == 3
UsrNames == {"super", "test", "bob"}
UsrInputs ==
    {UsrGuest(n, p) : n \in UsrNames, p \in PubKeys}
        \cup {UsrLogin(n, k, PubOf(k)) : n \in UsrNames, k \in PrivKeys}

\* the kernel between Kern::new and kern.run(): the scheduler has not started
InitApi ==
    /\ kern = KernNew
    /\ pc = "api"
    /\ runs = <<>>
    /\ i = 1
    /\ pushes = [id \in Ids |-> 0]
    /\ killed = {}
    /\ passLog = <<>>
    /\ lastGet = NoGet
    /\ earlyHit = FALSE
    /\ orphans = {}
    /\ lastEvt = Evt("none", NoId)
    /\ issued = <<>>
    /\ stale = {}
    /\ pool = KernDataPoolNew
    /\ msgs = <<>>
    /\ hist = NoHist

InitUsr ==
    /\ InitApi
    /\ users = <<>>
    /\ services = <<>>
    /\ call = NoCall

\* kern.reg_usr(usr)
RegUsr ==
    /\ Len(users) < MaxUsers
    /\ \E usr \in UsrInputs :
          /\ users' = reg_usr(users, usr).users
          /\ call' = [op |-> "reg_usr", usr |-> usr, before |-> users,
                      res |-> reg_usr(users, usr).res, err |-> reg_usr(users, usr).err]
    /\ UNCHANGED <<kern, pool>>
    /\ UNCHANGED sched

\* services the boot code may register
MaxServs == 3

\* the services given to reg_serv: three names, each with two help texts
ServInputs == {Serv(n, h) : n \in {"io.term", "sys.task", "sys.usr"}, h \in {"help", "man"}}

\* kern.reg_serv(serv)
RegServ ==
    /\ Len(services) < MaxServs
    /\ \E serv \in ServInputs :
          /\ services' = reg_serv(services, serv).services
          /\ call' = [op |-> "reg_serv", serv |-> serv, before |-> services,
                      res |-> reg_serv(services, serv).res, err |-> reg_serv(services, serv).err]
    /\ UNCHANGED <<kern, pool, users, msgs, hist>>
    /\ UNCHANGED <<pc, runs, i, pushes, killed, passLog, lastGet, earlyHit, orphans, lastEvt,
                   issued, stale>>

NextUsr == RegUsr \/ RegServ

SpecUsr == InitUsr /\ [][NextUsr]_vars

\* ------------------------------------------------------------------ message API
RECURSIVE RegUsrs(_, _)
RegUsrs(us, todo) ==
    IF todo = <<>> THEN us
    ELSE RegUsrs(reg_usr(us, Head(todo)).users, Tail(todo))

\* Kern.users after boot and three logins through sys.usr: the super user,
\* a guest, and two guests whose pub string is no key
BootUsers ==
    RegUsrs(<<>>, << UsrLogin("super", "privA", "pubA"),
                     UsrGuest("test", "pubB"),
                     UsrGuest("mal", Garbage),
                     UsrGuest("raw", NotBase64) >>)

\* units of the messages sent
MsgUnits ==
    { UnitNone, UnitStr("help"), UnitStr("info"), UnitStr("serv"), UnitStr("hello"),
      UnitMap(<< <<UnitStr("help"), UnitNone>> >>),
      UnitMap(<< <<UnitStr("say"), UnitStr("help")>> >>),
      UnitMap(<< <<UnitStr("help"), UnitStr("other")>>, <<UnitStr("help"), UnitStr("info")>> >>),
      UnitMap(<< <<UnitNone, UnitStr("info")>>, <<UnitStr("help"), UnitStr("serv")>> >>) }
        \cup {UnitMap(<< <<UnitStr("help"), UnitStr(x)>> >>) : x \in {"info", "help", "serv", "other"}}

Aths == {"super", "test", "mal", "raw", "nobody"}
ServNames == {"io.term", "sys.task", "test.none"}

\* signature strings a sender may attach to unit u
SigsOf(u) ==
    {Signature("sig", k, as_bytes(u)) : k \in PrivKeys}
        \cup { Signature("sig", "privA", as_bytes(UnitStr("forged"))),
               Signature("malformed", "", as_bytes(UnitNone)),
               Signature("notb64", "", as_bytes(UnitNone)) }

\* hash strings a sender may attach to unit u
HashesOf(u) == {Sha3(as_bytes(u)), Sha3(as_bytes(UnitStr("forged")))}

\* users whose sign / verify is called
KeyUsrs ==
    UsrInputs \cup { UsrLogin("bob", Garbage, "pubA"), UsrLogin("bob", NotBase64, "pubA"),
                     UsrLogin("bob", "privA", "pubB"),
                     UsrGuest("mal", Garbage), UsrGuest("raw", NotBase64) }

InitSend ==
    /\ InitApi
    /\ services = Services
    /\ users = BootUsers
    /\ call = NoCall

\* the calls are independent of each other (users does not change): each is
\* made from the state before any call
\* usr.sign(u)
DoSign ==
    /\ call.op = "none"
    /\ \E usr \in KeyUsrs, u \in MsgUnits :
          call' = [op |-> "sign", usr |-> usr, u |-> u, ret |-> sign(usr, u)]
    /\ UNCHANGED <<kern, users, pool>>
    /\ UNCHANGED sched

\* usr.verify(u, &sign, &hash)
DoVerify ==
    /\ call.op = "none"
    /\ \E usr \in KeyUsrs, u \in MsgUnits :
       \E sig \in SigsOf(u), hash \in HashesOf(u) :
          call' = [op |-> "verify", usr |-> usr, u |-> u, sign |-> sig, hash |-> hash,
                   ret |-> verify(usr, u, sig, hash)]
    /\ UNCHANGED <<kern, users, pool>>
    /\ UNCHANGED sched

\* kern.msg(ath, u)
DoMsg ==
    /\ call.op = "none"
    /\ \E ath \in Aths, u \in MsgUnits :
          call' = [op |-> "msg", ath |-> ath, u |-> u, ret |-> msg(users, ath, u)]
    /\ UNCHANGED <<kern, users, pool>>
    /\ UNCHANGED sched

\* Kern::send(mtx, serv, msg); hlr: the handler the call invoked, out: the
\* outcome of the returned thread once it has run to its end
DoSend ==
    /\ call.op = "none"
    /\ \E ath \in Aths, u \in MsgUnits, serv \in ServNames :
       \E sig \in SigsOf(u), hash \in HashesOf(u) :
          /\ call' = [op |-> "send", serv |-> serv, msg |-> Msg(ath, u, sig, hash),
                      ret |-> send_msg(users, Services, serv, Msg(ath, u, sig, hash)),
                      results |-> kern.task_result, out |-> <<>>]
          /\ kern' = send(kern, call'.ret.res).kern
    /\ UNCHANGED <<users, pool>>
    /\ UNCHANGED sched

\* the thread send returned for a help topic is resumed to its end
DoResume ==
    /\ call.op = "send"
    /\ call.ret.res = "Ok"
    /\ call.ret.val.kind # "hlr"
    /\ call.out = <<>>
    /\ call' = [call EXCEPT !.out = <<CoComplete(call.ret.val, users, Services)>>]
    /\ kern' = IF call.ret.val.kind = "serv" THEN WithLock(kern, LAMBDA g : g) ELSE kern
    /\ UNCHANGED <<users, pool>>
    /\ UNCHANGED sched

NextSend ==
    \/ DoSign
    \/ DoVerify
    \/ DoMsg
    \/ DoSend
    \/ DoResume

SpecSend == InitSend /\ [][NextSend]_vars

\* ------------------------------------------------------------------ unit API
\* pairs a map has at most
MaxMapLen == 3

\* keys and values of the maps looked into: two Str keys and two keys that
\* are no Str
FindKeys == {UnitStr("a"), UnitStr("b"), UnitNone, UnitList(<<UnitStr("a")>>)}
FindVals == {UnitStr("x"), UnitStr("y")}
FindPairs == {<<k, v>> : k \in FindKeys, v \in FindVals}

RECURSIVE SeqsUpTo(_, _)
\* the sequences over S of length n at most
SeqsUpTo(S, n) ==
    IF n = 0 THEN {<<>>}
    ELSE SeqsUpTo(S, n - 1) \cup
         {Append(q, x) : q \in {r \in SeqsUpTo(S, n - 1) : Len(r) = n - 1}, x \in S}

FindUnits ==
    {UnitMap(m) : m \in SeqsUpTo(FindPairs, MaxMapLen)}
        \cup {UnitNone, UnitStr("a"), UnitList(<<UnitStr("a"), UnitStr("x")>>),
              UnitPair(UnitStr("a"), UnitStr("x"))}

InitFind ==
    /\ InitApi
    /\ services = Services
    /\ users = <<>>
    /\ call = NoCall

\* u.as_map_find(sch)
DoMapFind ==
    /\ call.op = "none"
    /\ \E u \in FindUnits, sch \in {"a", "b", "c"} :
          call' = [op |-> "as_map_find", u |-> u, sch |-> sch, ret |-> as_map_find(u, sch)]
    /\ UNCHANGED <<kern, users, pool>>
    /\ UNCHANGED sched

NextFind == DoMapFind

SpecFind == InitFind /\ [][NextFind]_vars

\* ------------------------------------------------------------------ pool API
\* calls of new_unit with a unit of the caller
MaxInterns == 3

\* units a caller builds and hands to new_unit
PoolUnits ==
    { UnitNone, UnitStr("a"), UnitStr("b"),
      UnitPair(UnitStr("a"), UnitStr("b")),
      UnitList(<<UnitStr("a"), UnitStr("b")>>),
      UnitList(<<UnitPair(UnitStr("a"), UnitStr("b")), UnitStr("a")>>),
      UnitMap(<< <<UnitStr("a"), UnitList(<<UnitStr("a"), UnitStr("b")>>)>> >>),
      UnitPair(UnitList(<<UnitStr("a"), UnitStr("b")>>), UnitNone),
      UnitStream(UnitPair(UnitStr("a"), UnitStr("b")), "a", "loc") }

\* the units new_unit has returned so far
Returned == {e[2] : e \in call.log}

\* units a caller builds from units it got from the pool
SharedUnits ==
    {UnitList(<<x, y>>) : x, y \in Returned}
        \cup {UnitPair(x, UnitStr("b")) : x \in Returned}

InitPool ==
    /\ InitApi
    /\ services = Services
    /\ users = <<>>
    /\ call = [op |-> "none", n |-> 0, log |-> {}]

\* the history of a call of new_unit: the unit given, the unit returned, the
\* pool before the call, whether an equal unit was interned before, and the
\* log of (tree, unit returned) of all calls
Interned(op, u, r) ==
    /\ pool' = r.pool
    /\ call' = [op |-> op, u |-> u, ret |-> r.u, before |-> pool,
                n |-> IF op = "again" THEN call.n ELSE call.n + 1,
                seen |-> \E e \in call.log : e[1] = Val(pool, u),
                log |-> call.log \cup {<<Val(pool, u), r.u>>}]

\* kern.new_unit(u)
Intern ==
    /\ call.n < MaxInterns
    /\ \E u \in PoolUnits \cup SharedUnits : Interned("intern", u, new_or_get(pool, u))
    /\ UNCHANGED <<kern, users>>
    /\ UNCHANGED sched

\* kern.new_unit(kern.new_unit(u)): the unit returned is interned again
InternAgain ==
    /\ call.op = "intern"
    /\ Interned("again", call.ret, new_or_get(pool, call.ret))
    /\ UNCHANGED <<kern, users>>
    /\ UNCHANGED sched

NextPool ==
    \/ Intern
    \/ InternAgain

SpecPool == InitPool /\ [][NextPool]_vars

\* ------------------------------------------------------------------ sys.task
\* ids reg_task hands out while requests run: a handler registers a task
\* only while last_task_id < MaxIds
MaxIds == 5
\* tasks vnix_entry registers before it calls kern.run
MaxRoot == 2
\* `for i in 0..5` of DumbLoop
DumbLoopTurns == 5

\* enum Addr
Local == "loc"
Remote == "rem"

\* Unit::uint
UnitUint(n) == [t |-> "uint", v |-> n]

\* UnitAs: as_uint, as_pair, as_list, as_stream
as_uint(u) == IF u.t = "uint" THEN <<u.v>> ELSE <<>>
as_pair(u) == IF u.t = "pair" THEN << <<u.a, u.b>> >> ELSE <<>>
as_list(u) == IF u.t = "list" THEN <<u.l>> ELSE <<>>
as_stream(u) == IF u.t = "stream" THEN << <<u.u, u.serv, u.addr>> >> ELSE <<>>

\* the map has a pair of this key
HasKey(m, key) == \E j \in 1 .. Len(m) : m[j][1] = key

\* merge_with: two maps give the pairs of the first whose key the second does
\* not have, followed by the pairs of the second; otherwise the second unit
merge_with(a, b) ==
    IF a.t = "map" /\ b.t = "map"
    THEN UnitMap(SelectSeq(a.m, LAMBDA e : ~HasKey(b.m, e[1])) \o b.m)
    ELSE b

\* struct TaskRun(pub Unit, pub String)
Run(u, serv) == [msg |-> u, serv |-> serv]

\* Kern.services: the services of the requests
TaskServices ==
    RegServs(<<>>, << Serv("sys.task", "help of sys.task"),
                      Serv("sys.usr", "help of sys.usr"),
                      Serv("test.dumb", "help of test.dumb"),
                      Serv("test.loop", "help of test.loop"),
                      Serv("A", "help of A"),
                      Serv("B", "help of B") >>)

\* Kern.users after vnix_entry: the super user, who has a private key
SuperUsers == RegUsrs(<<>>, <<UsrLogin("super", "privA", "pubA")>>)

\* ---- segments
\* the locals of a handler coroutine suspended at a yield: the service and
\* the message it handles, for sys.task the operator, the elements left
\* (todo) or the turns left (left), the athority, the unit carried on (acc),
\* the service of task.stk (to) and what task.stk awaits (stage); th is the
\* thread send returned
Frame(th) ==
    [ pc |-> "run", n |-> 0, wait |-> NoId, serv |-> th.serv, m |-> th.msg, th |-> th,
      op |-> "", todo |-> <<>>, left |-> 0, ath |-> th.msg.ath, acc |-> UnitNone,
      to |-> "", stage |-> "", u |-> th.msg.msg, ath0 |-> th.msg.ath ]

\* result of one resume, with the users as the segment leaves them and the
\* Option<Msg> of a completion
SegT(k, us, co, st, out) ==
    [kern |-> k, users |-> us, co |-> co, st |-> st, out |-> out, get |-> NoGet, early |-> <<>>,
     err |-> ""]

\* the coroutine returns Err(e)
Failure(k, us, co, e) ==
    [SegT(k, us, [co EXCEPT !.pc = "end", !.wait = NoId], "Err", <<>>) EXCEPT !.err = e]

\* the coroutine yields
Yield(k, us, co) == SegT(k, us, co, "Yielded", <<>>)

\* the coroutine returns r: Ok(None), Ok(Some(msg)) or Err
Done(k, us, co, r) ==
    IF r.res = "Err" THEN Failure(k, us, co, r.err)
    ELSE SegT(k, us, [co EXCEPT !.pc = "end", !.wait = NoId], "Ok", r.val)

\* .map(|msg| Some(msg))
MapSome(r) == IF r.res = "Err" THEN r ELSE Ok(<<r.val>>)

\* kern.lock().reg_task(&ath, name, run)?
RegTask(k, usr, name, run) ==
    [ kern |-> WithLock(k, LAMBDA g : reg_task(g, usr, name, run).kern),
      id |-> reg_task(k, usr, name, run).id ]

\* ---- read_async
\* read_async of a unit: a unit that is neither Ref nor Stream is returned
\* as it is ("plain"); a Local Stream is sent as the task unit.read and
\* awaited ("child"); a Remote Stream gives the absent result ("absent")
ReadKind(u) ==
    IF as_stream(u) = <<>> THEN "plain"
    ELSE IF u.addr = Local THEN "child" ELSE "absent"

\* read_async of a Local Stream, the registration
ReadReg(k, ath, u) == RegTask(k, ath, "unit.read", Run(u.u, u.serv))

\* ---- sys.task, the shapes of a request
\* the operand of an operator written {name: operand} or (name operand)
Operand(u, name) ==
    IF as_map_find(u, name) # <<>> THEN as_map_find(u, name)
    ELSE IF as_pair(u) # <<>> /\ as_str(as_pair(u)[1][1]) = <<name>>
    THEN <<as_pair(u)[1][2]>>
    ELSE <<>>

\* the operand when it is a list
ListOperand(u, name) ==
    IF Operand(u, name) # <<>> THEN as_list(Operand(u, name)[1]) ELSE <<>>

\* stack: the operand is a Stream of a list
StkOperand(u) ==
    IF Operand(u, "task.stk") # <<>> /\ as_stream(Operand(u, "task.stk")[1]) # <<>>
       /\ as_list(Operand(u, "task.stk")[1].u) # <<>>
    THEN Operand(u, "task.stk")
    ELSE <<>>

\* _loop: (count stream) with a uint count, or the stream alone
LoopOp(u) ==
    IF Operand(u, "task.loop") = <<>> THEN ""
    ELSE IF as_pair(Operand(u, "task.loop")[1]) = <<>> THEN "inf"
    ELSE IF as_uint(Operand(u, "task.loop")[1].a) # <<>> THEN "loop"
    ELSE ""

\* chain: {task: [..]}
ChainList(u) ==
    IF as_map_find(u, "task") # <<>> THEN as_list(as_map_find(u, "task")[1]) ELSE <<>>

\* signal: ("kill", uint)
KillId(u) ==
    IF as_pair(u) # <<>> /\ as_str(u.a) = <<"kill">> THEN as_uint(u.b) ELSE <<>>

\* run, then get, then signal of task_hlr: the first operator the request
\* has the shape of.  A request that is a Stream is read by task_hlr
\* before run, and the operators see the unit it was read as; the requests of
\* the model have no Ref.
TaskOp(u) ==
    IF LoopOp(u) # "" THEN LoopOp(u)
    ELSE IF Operand(u, "task.sep") # <<>> THEN "sep"
    ELSE IF ChainList(u) # <<>> THEN "chain"
    ELSE IF ListOperand(u, "task.que") # <<>> THEN "que"
    ELSE IF StkOperand(u) # <<>> THEN "stk"
    ELSE IF as_str(u) # <<>> THEN "get"
    ELSE IF KillId(u) # <<>> THEN "kill"
    ELSE "echo"

\* ---- sys.task, get
\* the entry of a task in the answer of get
TaskEntry(t) ==
    UnitMap(<< <<UnitStr("id"), UnitUint(t.id)>>,
               <<UnitStr("name"), UnitStr(t.name)>>,
               <<UnitStr("usr"), UnitStr(t.usr)>>,
               <<UnitStr("par.id"), UnitUint(t.parent_id)>> >>)

\* Kern::get_tasks_running
get_tasks_running(k) == k.tasks_running

\* get_task_running that takes the first running task
get_task_running_first(k) == SubSeq(k.tasks_running, 1, 1)

\* Kern::get_task_running: the first running task whose id is curr_task_id
get_task_running(k) ==
    SubSeq(SelectSeq(k.tasks_running, LAMBDA t : t.id = k.curr_task_id), 1, 1)

\* the entry of a task in the tree of get
TreeEntry(t, child) ==
    UnitMap(<< <<UnitStr("id"), UnitUint(t.id)>>,
               <<UnitStr("name"), UnitStr(t.name)>>,
               <<UnitStr("usr"), UnitStr(t.usr)>>,
               <<UnitStr("child"), child>> >>)

\* what stands for a subtree the recursion of get_childs has not reached
\* after one call per task and one more
Deeper == UnitStr("...")

RECURSIVE get_childs_self(_, _, _)
\* get_childs that does not leave out the root itself
get_childs_self(root, tasks, d) ==
    IF d > Len(tasks) + 1 THEN Deeper
    ELSE LET cs == SelectSeq(tasks, LAMBDA t : t.parent_id = root.id)
         IN  IF Len(cs) = 0 THEN UnitNone
             ELSE UnitList([j \in 1 .. Len(cs) |->
                               TreeEntry(cs[j], get_childs_self(cs[j], tasks, d + 1))])

RECURSIVE get_childs(_, _, _)
\* get, get_childs(root, tasks): the tasks other than root and its parent
\* whose parent_id is the id of root, each with its own childs; no child is
\* Unit::none().  d is the depth of the call
get_childs(root, tasks, d) ==
    IF d > Len(tasks) + 1 THEN Deeper
    ELSE LET cs == SelectSeq(tasks, LAMBDA t : t.id # root.id /\ t.id # root.parent_id
                                               /\ t.parent_id = root.id)
         IN  IF Len(cs) = 0 THEN UnitNone
             ELSE UnitList([j \in 1 .. Len(cs) |->
                               TreeEntry(cs[j], get_childs(cs[j], tasks, d + 1))])

\* tasks.iter().min_by(|a, b| a.id.cmp(&b.id)): the first task of the least id
MinById(tasks) ==
    SubSeq(SelectSeq(tasks, LAMBDA t : \A j \in 1 .. Len(tasks) : t.id <= tasks[j].id), 1, 1)

\* get, `task_tree`
TaskTree(tasks) ==
    TreeEntry(MinById(tasks)[1], get_childs(MinById(tasks)[1], tasks, 1))

\* get, `info`, the part the request names: "run", "all" or "tree" ("get",
\* the whole of info, is no request of the model)
GetRes(k, s) ==
    IF get_task_running(k) = <<>> THEN <<>>
    ELSE IF s = "get.run" THEN <<TaskEntry(get_task_running(k)[1])>>
    ELSE IF s = "get.all"
    THEN <<UnitList([j \in 1 .. Len(get_tasks_running(k)) |->
                        TaskEntry(get_tasks_running(k)[j])])>>
    ELSE IF s = "get.tree" THEN <<TaskTree(get_tasks_running(k))>>
    ELSE <<>>

\* ---- sys.task, the operators
\* sim that registers the first Stream of the list and leaves the loop
SimRegsFirst(k, ath, lst) ==
    IF lst = <<>> THEN k
    ELSE IF as_stream(Head(lst)) # <<>>
    THEN RegTask(k, ath, "sys.task", Run(Head(lst).u, Head(lst).serv)).kern
    ELSE k

RECURSIVE SimRegs(_, _, _)
\* sim: for p in lst.iter() { if let Some((_msg, serv, _)) = p.as_stream()
\* { kern.lock().reg_task(&ath, "sys.task", TaskRun(_msg, serv))?; } }
SimRegs(k, ath, lst) ==
    IF lst = <<>> THEN k
    ELSE IF as_stream(Head(lst)) # <<>>
    THEN SimRegs(RegTask(k, ath, "sys.task", Run(Head(lst).u, Head(lst).serv)).kern,
                 ath, Tail(lst))
    ELSE SimRegs(k, ath, Tail(lst))

\* sim runs when loop, separate and chain did not return: it registers and
\* returns None, and run goes on with queue
Sim(k, ath, u) ==
    IF ListOperand(u, "task.sim") # <<>> THEN SimRegs(k, ath, ListOperand(u, "task.sim")[1])
    ELSE k

\* separate, "infinite": the Stream is registered whatever its address
Separate(k, ath, arg) ==
    IF as_stream(arg) # <<>> THEN RegTask(k, ath, "sys.task", Run(arg.u, arg.serv)).kern
    ELSE k

\* task_hlr returns its own message: Ok(Some(msg))
Echo(k, us, co) == Done(k, us, co, Ok(<<co.m>>))

\* run and task_hlr that answer the request whether the athority changed or
\* not
FinishAthMsg(k, us, co) ==
    Done(k, us, co, MapSome(msg(us, co.ath0, merge_with(co.u, co.u))))

\* run after loop, separate, queue or stack returned Some(_ath), and task_hlr
\* after run: with _ath != ath the request is merged with itself and signed
\* as `ath`, the athority run was called with; else run gives (None, ath)
\* and maybe_ok!(u) returns Ok(None)
FinishAth(k, us, co) ==
    IF co.ath # co.ath0
    THEN Done(k, us, co, MapSome(msg(us, co.ath0, merge_with(co.u, co.u))))
    ELSE Done(k, us, co, Ok(<<>>))

\* run without the map {msg: msg} around what chain returned
FinishChainFlat(k, us, co) ==
    Done(k, us, co, MapSome(msg(us, co.ath, merge_with(co.u, co.acc))))

\* run after chain returned Some((msg, ath)): {msg: msg} is merged into the
\* request and signed as the athority chain returned
FinishChain(k, us, co) ==
    Done(k, us, co,
         MapSome(msg(us, co.ath,
                     merge_with(co.u, UnitMap(<< <<UnitStr("msg"), co.acc>> >>)))))

\* the coroutine awaits the task it registered
Await(co, id) == [co EXCEPT !.wait = id, !.n = @ + 1]

RECURSIVE Advance(_, _, _, _)
RECURSIVE BeginTask(_, _, _, _, _)

\* _loop with a count that sends its stream and does not wait for the task
StepLoopNoAwait(k, us, ms, co) ==
    IF co.left = 0 THEN FinishAth(k, us, co)
    ELSE IF ReadKind(co.acc) = "child"
    THEN Advance(ReadReg(k, co.ath, co.acc).kern, us, ms, [co EXCEPT !.left = @ - 1])
    ELSE Advance(k, us, ms, [co EXCEPT !.left = @ - 1])

\* _loop with a count: for _ in 0..cnt { read_async!(msg, ..)? }
StepLoop(k, us, ms, co) ==
    IF co.left = 0 THEN FinishAth(k, us, co)
    ELSE IF ReadKind(co.acc) = "child"
    THEN Advance(ReadReg(k, co.ath, co.acc).kern, us, ms,
                 Await([co EXCEPT !.left = @ - 1], ReadReg(k, co.ath, co.acc).id))
    ELSE Advance(k, us, ms, [co EXCEPT !.left = @ - 1])

\* _loop, "infinite": loop { read_async!(msg, ..)?; } -- with a unit that is
\* read without a yield the segment never ends and run stands in this resume
StepInf(k, us, ms, co) ==
    IF ReadKind(co.acc) = "child"
    THEN Advance(ReadReg(k, co.ath, co.acc).kern, us, ms,
                 Await(co, ReadReg(k, co.ath, co.acc).id))
    ELSE Yield([k EXCEPT !.spin = TRUE], us, co)

\* chain, `for p in lst`: the task for the service p gets _msg
StepChain(k, us, ms, co) ==
    IF co.todo = <<>> THEN FinishChain(k, us, co)
    ELSE IF as_str(Head(co.todo)) = <<>> THEN Echo(k, us, co)
    ELSE Advance(RegTask(k, co.ath, "sys.task", Run(co.acc, Head(co.todo).s)).kern, us, ms,
                 Await([co EXCEPT !.todo = Tail(@)],
                       RegTask(k, co.ath, "sys.task", Run(co.acc, Head(co.todo).s)).id))

\* queue that sends every Stream of its list and waits for none
StepQueNoAwait(k, us, ms, co) ==
    IF co.todo = <<>> THEN FinishAth(k, us, co)
    ELSE IF ReadKind(Head(co.todo)) = "child"
    THEN Advance(ReadReg(k, co.ath, Head(co.todo)).kern, us, ms, [co EXCEPT !.todo = Tail(@)])
    ELSE Advance(k, us, ms, [co EXCEPT !.todo = Tail(@)])

\* queue, `for p in lst`: read_async!(p, ..)?
StepQue(k, us, ms, co) ==
    IF co.todo = <<>> THEN FinishAth(k, us, co)
    ELSE IF ReadKind(Head(co.todo)) = "child"
    THEN Advance(ReadReg(k, co.ath, Head(co.todo)).kern, us, ms,
                 Await([co EXCEPT !.todo = Tail(@)], ReadReg(k, co.ath, Head(co.todo)).id))
    ELSE Advance(k, us, ms, [co EXCEPT !.todo = Tail(@)])

\* stack that registers the task of an element and goes on to the next
StkSendNoAwait(k, us, ms, co, u) ==
    Advance(RegTask(k, co.ath, "sys.task", Run(u, co.to)).kern, us, ms,
            [co EXCEPT !.todo = Tail(@), !.wait = NoId, !.stage = ""])

\* stack: let run = TaskRun(msg, serv.clone()); reg_task; task_result!
StkSend(k, us, ms, co, u) ==
    Advance(RegTask(k, co.ath, "sys.task", Run(u, co.to)).kern, us, ms,
            Await([co EXCEPT !.todo = Tail(@), !.stage = "send"],
                  RegTask(k, co.ath, "sys.task", Run(u, co.to)).id))

\* stack, `for p in lst`: maybe!(read_async!(p, ..)), then the send
StepStk(k, us, ms, co) ==
    IF co.todo = <<>> THEN FinishAth(k, us, co)
    ELSE IF ReadKind(Head(co.todo)) = "child"
    THEN Advance(ReadReg(k, co.ath, Head(co.todo)).kern, us, ms,
                 Await([co EXCEPT !.stage = "read"], ReadReg(k, co.ath, Head(co.todo)).id))
    ELSE IF ReadKind(Head(co.todo)) = "absent" THEN Echo(k, us, co)
    ELSE StkSend(k, us, ms, co, Head(co.todo))

\* get after its yield: the part asked for as {msg: res}, or None and the
\* request goes on to signal and comes back as it is
StepGet(k, us, co) ==
    IF co.acc = UnitNone THEN Echo(k, us, co)
    ELSE Done(k, us, co,
              MapSome(msg(us, co.ath, UnitMap(<< <<UnitStr("msg"), co.acc>> >>))))

\* the athority after a child's outcome r: the one of its message, if any
AthAfter(co, r) == IF r = <<>> THEN co.ath ELSE r[1].ath

\* Got whose chain hands the answer of a service on as it is
GotNoMerge(k, us, ms, co, r) ==
    CASE co.op \in {"loop", "que"} ->
            Advance(k, us, ms, [co EXCEPT !.wait = NoId, !.ath = AthAfter(co, r)])
      [] co.op = "chain" ->
            IF r = <<>> THEN Echo(k, us, co)
            ELSE Advance(k, us, ms, [co EXCEPT !.wait = NoId, !.ath = r[1].ath,
                                               !.acc = r[1].msg])
      [] co.op = "stk" /\ co.stage = "read" ->
            IF r = <<>> THEN Echo(k, us, co)
            ELSE StkSend(k, us, ms, [co EXCEPT !.wait = NoId, !.ath = r[1].ath], r[1].msg)
      [] co.op = "stk" ->
            Advance(k, us, ms, [co EXCEPT !.wait = NoId, !.ath = AthAfter(co, r),
                                          !.stage = ""])
      [] co.op = "rd" ->
            IF r = <<>> THEN Done(k, us, co, Ok(<<>>))
            ELSE BeginTask(k, us, ms, [co EXCEPT !.wait = NoId, !.op = "", !.ath = r[1].ath,
                                                 !.ath0 = r[1].ath, !.u = r[1].msg],
                           r[1].msg)
      [] OTHER -> Advance(k, us, ms, [co EXCEPT !.wait = NoId])

\* the awaited task ended with Ok(r): what the operator does with it
Got(k, us, ms, co, r) ==
    CASE co.op \in {"loop", "que"} ->
            Advance(k, us, ms, [co EXCEPT !.wait = NoId, !.ath = AthAfter(co, r)])
      [] co.op = "chain" ->
            IF r = <<>> THEN Echo(k, us, co)
            ELSE Advance(k, us, ms, [co EXCEPT !.wait = NoId, !.ath = r[1].ath,
                                               !.acc = merge_with(@, r[1].msg)])
      [] co.op = "stk" /\ co.stage = "read" ->
            IF r = <<>> THEN Echo(k, us, co)
            ELSE StkSend(k, us, ms, [co EXCEPT !.wait = NoId, !.ath = r[1].ath], r[1].msg)
      [] co.op = "stk" ->
            Advance(k, us, ms, [co EXCEPT !.wait = NoId, !.ath = AthAfter(co, r),
                                          !.stage = ""])
      [] co.op = "rd" ->
            IF r = <<>> THEN Done(k, us, co, Ok(<<>>))
            ELSE BeginTask(k, us, ms, [co EXCEPT !.wait = NoId, !.op = "", !.ath = r[1].ath,
                                                 !.ath0 = r[1].ath, !.u = r[1].msg],
                           r[1].msg)
      [] OTHER -> Advance(k, us, ms, [co EXCEPT !.wait = NoId])

\* an Err of the awaited task taken as the absent result
GotErrAsNone(k, us, ms, co, e) == Got(k, us, ms, co, <<>>)

\* the awaited task ended with Err(e): the `?` after task_result! and the
\* `?` after thread_await! return it from the operator, from run and from
\* task_hlr
GotErr(k, us, ms, co, e) == Done(k, us, co, Err(e))

\* the KernErr of the outcome Err task_result has of the task
ResultErr(id) == hist.errv[id]

\* task_result!(id, kern), one turn: nothing yet (yield), an Err (`?`
\* returns it), or the Option<Msg> of the task
Polled(p, us, ms, co) ==
    IF p.kern.spin \/ p.out = <<>> THEN Yield(p.kern, us, co)
    ELSE IF p.out[1] = "Err" THEN GotErr(p.kern, us, ms, co, ResultErr(co.wait))
    ELSE Got(p.kern, us, ms, co, ms[co.wait])

\* the threads of send, after their yield
StepThread(k, us, co) == Done(k, us, co, CoComplete(co.th, us, TaskServices))

\* Dumb / DumbLoop: the writes and yields are made, Ok(None)
StepDumb(k, us, co) ==
    IF co.left = 0 THEN Done(k, us, co, Ok(<<>>))
    ELSE Yield(WithLock(k, LAMBDA g : g), us, [co EXCEPT !.left = @ - 1])

\* usr_hlr after the yield that follows reg_usr: the message, signed as the
\* new user
StepUsr(k, us, co) == Done(k, us, co, MapSome(msg(us, co.to, co.m.msg)))

\* a suspended coroutine goes on to its next yield or to its end
Advance(k, us, ms, co) ==
    IF co.wait # NoId THEN Polled(Poll(k, co.wait), us, ms, co)
    ELSE CASE co.op = "loop" -> StepLoop(k, us, ms, co)
           [] co.op = "inf" -> StepInf(k, us, ms, co)
           [] co.op = "chain" -> StepChain(k, us, ms, co)
           [] co.op = "que" -> StepQue(k, us, ms, co)
           [] co.op = "stk" -> StepStk(k, us, ms, co)
           [] co.op = "get" -> StepGet(k, us, co)
           [] co.op = "dumb" -> StepDumb(k, us, co)
           [] co.op = "usr" -> StepUsr(k, us, co)
           [] OTHER -> StepThread(k, us, co)

\* ---- the first segment
\* task_hlr after the read of the request, up to its first yield or its end:
\* u is the unit the request was read as, run tries loop, separate, chain,
\* sim, queue, stack in this order, then get and signal
BeginTask(k, us, ms, co, u) ==
    CASE TaskOp(u) = "loop" ->
            Advance(k, us, ms, [co EXCEPT !.op = "loop",
                                          !.left = as_uint(Operand(u, "task.loop")[1].a)[1],
                                          !.acc = Operand(u, "task.loop")[1].b])
      [] TaskOp(u) = "inf" ->
            Advance(k, us, ms, [co EXCEPT !.op = "inf", !.acc = Operand(u, "task.loop")[1]])
      [] TaskOp(u) = "sep" ->
            Done(Separate(k, co.ath, Operand(u, "task.sep")[1]), us, co, Ok(<<>>))
      [] TaskOp(u) = "chain" ->
            Advance(k, us, ms, [co EXCEPT !.op = "chain", !.todo = ChainList(u)[1],
                                          !.acc = IF as_map_find(u, "msg") # <<>>
                                                  THEN as_map_find(u, "msg")[1] ELSE u])
      [] TaskOp(u) = "que" ->
            Advance(Sim(k, co.ath, u), us, ms,
                    [co EXCEPT !.op = "que", !.todo = ListOperand(u, "task.que")[1]])
      [] TaskOp(u) = "stk" ->
            Advance(Sim(k, co.ath, u), us, ms,
                    [co EXCEPT !.op = "stk", !.todo = StkOperand(u)[1].u.l,
                               !.to = StkOperand(u)[1].serv])
      [] TaskOp(u) = "get" ->
            IF get_task_running(k) = <<>> THEN Echo(k, us, co)
            ELSE Yield(WithLock(WithLock(k, LAMBDA g : g), LAMBDA g : g), us,
                       [co EXCEPT !.op = "get",
                                  !.acc = IF GetRes(k, u.s) = <<>> THEN UnitNone
                                          ELSE GetRes(k, u.s)[1]])
      [] TaskOp(u) = "kill" ->
            Echo(WithLock(Sim(k, co.ath, u), LAMBDA g : task_sig(g, KillId(u)[1], Kill)),
                 us, co)
      [] OTHER -> Echo(Sim(k, co.ath, u), us, co)

\* task_hlr, its first lines: the unit of the request is read, a Stream as
\* the task unit.read that task_hlr awaits; maybe! returns Ok(None) for the
\* absent result
BeginRead(k, us, ms, co) ==
    CASE ReadKind(co.m.msg) = "plain" -> BeginTask(k, us, ms, co, co.m.msg)
      [] ReadKind(co.m.msg) = "child" ->
            Advance(ReadReg(k, co.ath, co.m.msg).kern, us, ms,
                    Await([co EXCEPT !.op = "rd"], ReadReg(k, co.ath, co.m.msg).id))
      [] OTHER -> Done(k, us, co, Ok(<<>>))

\* auth of sys.usr: {ath pub priv} is Usr::login, {ath pub} is Usr::guest
\* (the requests of the model carry the key: Usr::new is not modelled)
Auth(u) ==
    IF as_map_find(u, "ath") = <<>> \/ as_map_find(u, "pub") = <<>> THEN <<>>
    ELSE IF as_map_find(u, "priv") # <<>>
    THEN <<UsrLogin(as_map_find(u, "ath")[1].s, as_map_find(u, "priv")[1].s,
                    as_map_find(u, "pub")[1].s)>>
    ELSE <<UsrGuest(as_map_find(u, "ath")[1].s, as_map_find(u, "pub")[1].s)>>

\* usr_hlr up to its first yield: kern.lock().reg_usr(usr)?; writeln; yield
BeginUsr(k, us, co, u) ==
    IF Auth(u) = <<>> THEN Echo(k, us, co)
    ELSE IF reg_usr(us, Auth(u)[1]).res = "Err"
    THEN Done(WithLock(k, LAMBDA g : g), us, co, Err(reg_usr(us, Auth(u)[1]).err))
    ELSE Yield(WithLock(WithLock(k, LAMBDA g : g), LAMBDA g : g),
               reg_usr(us, Auth(u)[1]).users,
               [co EXCEPT !.op = "usr", !.to = Auth(u)[1].name])

\* the services A and B of the chain scenario answer {msg: "x"} and {msg: "y"}
Answer(us, co, s) ==
    MapSome(msg(us, co.m.ath, UnitMap(<< <<UnitStr("msg"), UnitStr(s)>> >>)))

\* (serv.hlr)(msg, ..) resumed for the first time
BeginHlr(k, us, ms, co) ==
    CASE co.serv = "sys.task" -> BeginRead(k, us, ms, co)
      [] co.serv = "sys.usr" -> BeginUsr(k, us, co, co.m.msg)
      [] co.serv = "test.dumb" -> StepDumb(k, us, [co EXCEPT !.op = "dumb", !.left = 1])
      [] co.serv = "test.loop" ->
            StepDumb(k, us, [co EXCEPT !.op = "dumb", !.left = DumbLoopTurns])
      [] co.serv = "A" -> Done(k, us, co, Answer(us, co, "x"))
      [] OTHER -> Done(k, us, co, Answer(us, co, "y"))

\* the coroutine send returned, resumed for the first time: the handler, or
\* a thread of send up to its yield
BeginThread(k, us, ms, th) ==
    IF th.kind = "hlr" THEN BeginHlr(k, us, ms, Frame(th))
    ELSE Yield(k, us, [Frame(th) EXCEPT !.op = "thread"])

\* Task::run, the first resume: let msg = kern.lock().msg(&usr, run.0)?;
\* let co = Kern::send(kern, run.1, msg)?; then the coroutine of send
StartSent(k, us, ms, co, s) ==
    IF s.res = "Err" THEN Failure(send(k, "Err").kern, us, co, s.err)
    ELSE BeginThread(send(k, "Ok").kern, us, ms, s.val)

StartTask(k, us, ms, t, co) ==
    IF msg(us, t.usr, t.run.msg).res = "Err"
    THEN Failure(WithLock(k, LAMBDA g : g), us, co, msg(us, t.usr, t.run.msg).err)
    ELSE StartSent(WithLock(k, LAMBDA g : g), us, ms, co,
                   send_msg(us, TaskServices, t.run.serv, msg(us, t.usr, t.run.msg).val))

\* Pin::new(run).resume(()) of a task of the requests
ResumeTask(k, us, ms, t, co) ==
    IF co.pc = "start" THEN StartTask(k, us, ms, t, co) ELSE Advance(k, us, ms, co)

\* ---- the requests
\* counts a task.loop request is given
MaxLoop == 2

\* unit@serv and unit@serv@addr
Loc(u, serv) == UnitStream(u, serv, Local)
Rem(u, serv) == UnitStream(u, serv, Remote)

\* (name operand) and {name: operand}
PairOp(name, arg) == UnitPair(UnitStr(name), arg)
MapOp(name, arg) == UnitMap(<< <<UnitStr(name), arg>> >>)

\* {ath:test pub:.. priv:..}: the login of the user test
LoginTest ==
    UnitMap(<< <<UnitStr("ath"), UnitStr("test")>>, <<UnitStr("pub"), UnitStr("pubB")>>,
               <<UnitStr("priv"), UnitStr("privB")>> >>)

\* {ath:gst pub:..}: the login of the guest gst
GuestTest ==
    UnitMap(<< <<UnitStr("ath"), UnitStr("gst")>>, <<UnitStr("pub"), UnitStr("pubB")>> >>)

\* the streams of the requests: to a test service that yields once or five
\* times and answers nothing, to a service that answers, to sys.usr, to
\* sys.task, to a service that is not registered, and to a remote address
Streams ==
    { Loc(UnitStr("a"), "test.dumb"), Loc(UnitStr("b"), "test.loop"),
      Loc(UnitStr("a"), "A"), Loc(LoginTest, "sys.usr"), Loc(GuestTest, "sys.usr"),
      Loc(UnitStr("get.run"), "sys.task"), Loc(UnitStr("a"), "test.none"),
      Rem(UnitStr("a"), "test.dumb") }

ServLists ==
    { <<UnitStr("A"), UnitStr("B")>>, <<UnitStr("B"), UnitStr("A")>>, <<UnitStr("A")>>,
      <<UnitStr("test.dumb"), UnitStr("A")>>, <<UnitStr("test.none"), UnitStr("A")>>,
      <<UnitStr("sys.usr"), UnitStr("A")>> }

StreamLists ==
    { <<Loc(UnitStr("b"), "test.loop"), Loc(UnitStr("a"), "test.dumb")>>,
      <<Loc(UnitStr("a"), "test.dumb"), Loc(UnitStr("a"), "A")>>,
      <<Loc(LoginTest, "sys.usr"), Loc(UnitStr("a"), "A")>>,
      <<Loc(UnitStr("get.run"), "sys.task")>>,
      <<Loc(UnitStr("a"), "test.none"), Loc(UnitStr("a"), "A")>>,
      <<Rem(UnitStr("a"), "test.dumb"), UnitStr("c"), Loc(UnitStr("a"), "A")>> }

StkStreams ==
    { Loc(UnitList(<<UnitStr("a"), UnitStr("b")>>), "test.dumb"),
      Loc(UnitList(<<UnitStr("a"), UnitStr("b")>>), "A"),
      Loc(UnitList(<<LoginTest, UnitStr("b")>>), "sys.usr"),
      Loc(UnitList(<<UnitStr("a"), UnitStr("b")>>), "test.none"),
      Rem(UnitList(<<UnitStr("a")>>), "A") }

\* task.stk whose list has Streams, in the map form
StkMapStreams ==
    { Loc(UnitList(<<Loc(UnitStr("a"), "A"), UnitStr("b")>>), "test.dumb"),
      Loc(UnitList(<<Loc(UnitStr("a"), "test.dumb"), UnitStr("b")>>), "A"),
      Loc(UnitList(<<Rem(UnitStr("a"), "A"), UnitStr("b")>>), "A") }

\* the units sent to sys.task
Requests ==
    {PairOp("task.loop", UnitPair(UnitUint(n), s)) : n \in 0 .. MaxLoop, s \in Streams}
        \cup {PairOp("task.loop", s) : s \in Streams \ {Rem(UnitStr("a"), "test.dumb")}}
        \cup {MapOp("task.loop", Loc(UnitStr("a"), "A"))}
        \cup {PairOp("task.sep", s) : s \in Streams}
        \cup {PairOp("task.sep", Loc(PairOp("task.sep", Loc(UnitStr("get.run"), "sys.task")),
                                     "sys.task"))}
        \cup {MapOp("task", UnitList(l)) : l \in ServLists}
        \cup {UnitMap(<< <<UnitStr("task"), UnitList(<<UnitStr("A"), UnitStr("B")>>)>>,
                         <<UnitStr("msg"), UnitStr("m")>> >>)}
        \cup {PairOp("task.sim", UnitList(l)) : l \in StreamLists}
        \cup {PairOp("task.que", UnitList(l)) : l \in StreamLists}
        \cup {PairOp("task.stk", s) : s \in StkStreams}
        \cup {MapOp("task.stk", s) : s \in StkStreams \cup StkMapStreams}
        \cup {PairOp("task.loop", UnitPair(UnitUint(1), Loc(PairOp("task.loop",
                  UnitPair(UnitUint(1), Loc(UnitStr("get.tree"), "sys.task"))), "sys.task")))}
        \cup {UnitStr("get.all"), UnitStr("get.run"), UnitStr("get.tree"), UnitStr("hello"),
              UnitNone}
        \cup Streams
        \cup {PairOp("kill", UnitUint(id)) : id \in 0 .. MaxIds}

\* the requests that look at or signal the tasks of another request
Observers ==
    {UnitStr("get.all"), UnitStr("get.run"), UnitStr("get.tree")}
        \cup {PairOp("kill", UnitUint(id)) : id \in 0 .. MaxIds}

\* ---- actions
\* the kernel after vnix_entry registered the services and the super user
InitTask ==
    /\ kern = KernNew
    /\ pc = "boot"
    /\ runs = <<>>
    /\ i = 1
    /\ pushes = [id \in 0 .. MaxIds |-> 0]
    /\ killed = {}
    /\ passLog = <<>>
    /\ lastGet = NoGet
    /\ earlyHit = FALSE
    /\ orphans = {}
    /\ lastEvt = Evt("none", NoId)
    /\ issued = <<>>
    /\ stale = {}
    /\ users = SuperUsers
    /\ call = NoCall
    /\ pool = KernDataPoolNew
    /\ msgs = <<>>
    /\ hist = NoHist
    /\ services = TaskServices

\* the operator of a frame
OpOf(co) == IF "op" \in DOMAIN co THEN co.op ELSE ""

\* the tasks a step put into tasks_queue, with the task that was running
Regs(k0, k1, by, op) ==
    [j \in 1 .. (Len(k1.tasks_queue) - Len(k0.tasks_queue)) |->
        [task |-> k1.tasks_queue[Len(k0.tasks_queue) + j], by |-> by, op |-> op]]

\* vnix_entry: kern.reg_task(&_super.name, "init.load", TaskRun(msg, "sys.task"))
BootTask ==
    /\ pc = "boot"
    /\ kern.last_task_id < MaxRoot
    /\ \E u \in (IF kern.last_task_id = 0 THEN Requests ELSE Observers) :
          kern' = reg_task(kern, "super", "init.load", Run(u, "sys.task")).kern
    /\ issued' = issued \o IdsOf(SubSeq(kern'.tasks_queue, Len(kern.tasks_queue) + 1,
                                         Len(kern'.tasks_queue)))
    /\ hist' = [hist EXCEPT !.regs = @ \o Regs(kern, kern', NoId, "boot")]
    /\ services' = services
    /\ UNCHANGED <<pc, runs, i, pushes, killed, passLog, lastGet, earlyHit, orphans, lastEvt,
                   stale, msgs>>
    /\ UNCHANGED api

\* the signals a segment put into tasks_signals
Sigs(k0, k1) ==
    [j \in 1 .. (Len(k1.tasks_signals) - Len(k0.tasks_signals)) |->
        [id |-> k1.tasks_signals[Len(k0.tasks_signals) + j][1], last |-> k1.last_task_id]]

\* the history after the segment sg of entry e
Handled(e, sg) ==
    /\ users' = sg.users
    /\ services' = services
    /\ msgs' = IF sg.st = "Yielded" THEN msgs ELSE (e.task.id :> sg.out) @@ msgs
    /\ hist' = [ regs |-> hist.regs \o Regs(kern, sg.kern, e.task.id, OpOf(sg.co)),
                 seg |-> [id |-> e.task.id, before |-> kern, after |-> sg.kern,
                          task |-> e.task, st |-> sg.st],
                 snaps |-> IF e.co.pc = "start"
                           THEN (e.task.id :> kern.tasks_running) @@ hist.snaps
                           ELSE hist.snaps,
                 errs |-> IF sg.st = "Err" THEN hist.errs \cup {e.task.id} ELSE hist.errs,
                 sigs |-> hist.sigs \o Sigs(kern, sg.kern),
                 errv |-> IF sg.st = "Err" THEN (e.task.id :> sg.err) @@ hist.errv
                          ELSE hist.errv ]

\* one iteration of the for loop: no signal, the coroutine of a request or
\* of one of its tasks is resumed
StepTask ==
    /\ pc = "for"
    /\ i <= Len(runs)
    /\ ~HasSig(kern, runs[i].task.id)
    /\ ~runs[i].done
    /\ LET k0 == WithLock(WithLock(kern, LAMBDA g : g),
                          LAMBDA g : [g EXCEPT !.curr_task_id = runs[i].task.id])
           sg == ResumeTask(k0, users, msgs, runs[i].task, runs[i].co)
       IN  /\ sg.kern.last_task_id <= MaxIds
           /\ Resumed(runs[i], AfterResume(sg, runs[i], TRUE))
           /\ Handled(runs[i], sg)
    /\ i' = i + 1
    /\ UNCHANGED <<killed, orphans, stale, call, pool>>

NextTask ==
    \/ BootTask
    \/ KernRun
    \/ Drain
    \/ StepKill
    \/ StepSkip
    \/ StepTask
    \/ EndPass

SpecTask == InitTask /\ [][NextTask]_vars

\* ------------------------------------------------------------------ claims
Range(q) == {q[j] : j \in 1 .. Len(q)}
InRunning(k, id) == id \in TaskIds(k.tasks_running)
RunIds == {runs[j].task.id : j \in 1 .. Len(runs)}
StrictlyAsc(q) == \A a, b \in 1 .. Len(q) : a < b => q[a] < q[b]

\* C1: a task whose coroutine completes gets exactly one entry pushed to
\* task_result and never a second one; a task whose Kill is processed before
\* its coroutine completes never gets one.
C1_OneResultUnlessKilled ==
    \A id \in Ids :
        /\ pushes[id] <= 1
        /\ Count(kern.task_result, id) <= pushes[id]
        /\ id \in killed => pushes[id] = 0
        /\ \A j \in 1 .. Len(runs) :
              (runs[j].task.id = id /\ runs[j].co.pc = "end") => pushes[id] = 1

\* a task that ran, yielded and was then killed, next to one that completed
C1_Witness ==
    \E a, b \in 1 .. Len(runs) :
        /\ pushes[runs[a].task.id] = 1
        /\ runs[b].task.id \in killed
        /\ runs[b].co.pc = "run"
        /\ pushes[runs[b].task.id] = 0

C2_AtNextTurn ==
    \A j \in 1 .. Len(runs) :
        /\ (pc = "for" /\ ~runs[j].done /\ HasSig(kern, runs[j].task.id)) =>
              /\ Len(runs') >= j
              /\ runs'[j].co = runs[j].co
              /\ i = j => /\ runs'[j].done
                          /\ ~InRunning(kern', runs[j].task.id)
                          /\ ~HasSig(kern', runs[j].task.id)
        /\ (pc = "for" /\ runs[j].done) =>
              /\ Len(runs') >= j
              /\ runs'[j].co = runs[j].co
              /\ runs'[j].done

C2_WithinOnePass ==
    (pc = "for" /\ i > Len(runs)) => \A id \in stale : ~InRunning(kern, id)

\* C2: a not-done task of the working set with a Kill in tasks_signals is
\* not resumed again: at its next turn it is marked done, removed from
\* tasks_running and the signal is consumed; a task that ended a pass alive
\* with a signal pending is out of tasks_running when the next pass ends.
C2_KillBeforeNextResume == [][C2_AtNextTurn]_vars /\ []C2_WithinOnePass

\* a suspended task killed in the pass after the one its signal was posted in
C2_Witness ==
    \E j \in 1 .. Len(runs) :
        /\ runs[j].task.id \in killed
        /\ runs[j].task.id \in stale
        /\ runs[j].done
        /\ runs[j].co.pc = "run"
        /\ ~HasSig(kern, runs[j].task.id)
        /\ ~InRunning(kern, runs[j].task.id)

\* C3: the ids reg_task hands out are 0, 1, 2, .. in call order, hence
\* unique and increasing, whoever registers; reg_task never fails.
C3_IdsUniqueIncreasing ==
    /\ \A j \in 1 .. Len(issued) : issued[j] = j - 1
    /\ Len(issued) = kern.last_task_id
    /\ \A kind \in Kinds :
          /\ reg_task(kern, "super", "sys.task", kind).res = "Ok"
          /\ reg_task(kern, "super", "sys.task", kind).id = kern.last_task_id
          /\ reg_task(kern, "super", "sys.task", kind).kern.tasks_queue
                = Append(kern.tasks_queue,
                         TaskNew("super", "sys.task", kern.last_task_id, kern.curr_task_id, kind))

\* tasks of the boot code and tasks registered by running tasks, all ids used
C3_Witness ==
    /\ Len(issued) = MaxTasks
    /\ \E j \in 1 .. Len(runs) : runs[j].task.name = "init.load"
    /\ \E j \in 1 .. Len(runs) : runs[j].task.name = "sys.task"

\* C4: tasks_running holds no task whose done flag is set, whether it
\* completed or was killed.
C4_NoDoneTaskRunning ==
    \A j \in 1 .. Len(runs) : runs[j].done => ~InRunning(kern, runs[j].task.id)

\* a completed and a killed task next to one still running
C4_Witness ==
    /\ \E a, b \in 1 .. Len(runs) :
          /\ runs[a].done /\ pushes[runs[a].task.id] = 1
          /\ runs[b].done /\ runs[b].task.id \in killed
    /\ kern.tasks_running # <<>>

\* C5: in a pass the not-done tasks of the working set are resumed once
\* each, in ascending id order; a task registered during the pass waits in
\* tasks_queue and is not resumed in that pass.
C5_RoundRobinInOrder ==
    /\ StrictlyAsc([j \in 1 .. Len(runs) |-> runs[j].task.id])
    /\ StrictlyAsc(passLog)
    /\ pc = "for" =>
          /\ \A j \in 1 .. Len(runs) :
                (j < i /\ ~runs[j].done) => runs[j].task.id \in Range(passLog)
          /\ \A id \in Range(passLog) :
                \E j \in 1 .. Len(runs) : j < i /\ runs[j].task.id = id
    /\ \A n \in 1 .. Len(kern.tasks_queue) :
          /\ kern.tasks_queue[n].id \notin Range(passLog)
          /\ \A id \in RunIds : id < kern.tasks_queue[n].id

\* a finished pass that resumed two tasks, one of which registered a child
C5_Witness ==
    /\ pc = "for"
    /\ i > Len(runs)
    /\ Len(passLog) >= 2
    /\ kern.tasks_queue # <<>>

\* C6: the poll a task makes in the segment in which it registered a child
\* finds no outcome of the child; a task still in tasks_queue has no entry
\* in task_result.
C6_NoResultBeforeYield ==
    /\ ~earlyHit
    /\ \A n \in 1 .. Len(kern.tasks_queue) :
          Count(kern.task_result, kern.tasks_queue[n].id) = 0

\* a parent that obtained the outcome of its child in a later resume
C6_Witness ==
    /\ lastGet.out # <<>>
    /\ \E j \in 1 .. Len(runs) : runs[j].co.n >= 1 /\ runs[j].task.run = "chain"

FirstOf(q, id) ==
    q[CHOOSE j \in 1 .. Len(q) : q[j][1] = id /\ \A m \in 1 .. (j - 1) : q[m][1] # id]

\* C7: get_task_result(id) returns the recorded outcome of id and removes
\* it, a repeated call returns absent, the entries of other ids stay in
\* order, and a call for an id without entry changes nothing.
C7_GetTaskResultDrains ==
    lastGet.id # NoId =>
        /\ lastGet.out = IF Count(lastGet.before, lastGet.id) = 0 THEN <<>>
                         ELSE <<FirstOf(lastGet.before, lastGet.id)[2]>>
        /\ lastGet.after = SelectSeq(lastGet.before, LAMBDA en : en[1] # lastGet.id)
        /\ Count(lastGet.before, lastGet.id) = 0 => lastGet.after = lastGet.before
        /\ get_task_result([kern EXCEPT !.task_result = lastGet.after], lastGet.id).out = <<>>
        /\ get_task_result([kern EXCEPT !.task_result = lastGet.after], lastGet.id).kern.task_result
              = lastGet.after

\* a call that returned an outcome while the entry of another task stayed
C7_Witness ==
    /\ lastGet.out # <<>>
    /\ lastGet.after # <<>>

\* C8: a coroutine that completes with Err gets (id, Err) recorded, leaves
\* tasks_running, and the scheduler goes on with the for loop; run never
\* returns.
C8_ErrDoesNotStopKernel ==
    /\ pc # "ret"
    /\ lastEvt.kind = "Err" =>
          /\ kern.task_result # <<>>
          /\ kern.task_result[Len(kern.task_result)] = <<lastEvt.id, "Err">>
          /\ ~InRunning(kern, lastEvt.id)
          /\ \E j \in 1 .. Len(runs) : runs[j].task.id = lastEvt.id /\ runs[j].done
          /\ pc = "for"

\* another task resumed after the Err of a task was recorded
C8_Witness ==
    \E id \in Ids :
        /\ <<id, "Err">> \in Range(kern.task_result)
        /\ lastEvt.kind \in {"Yielded", "Ok"}
        /\ lastEvt.id # id

\* C9: a child awaited by a task that was killed stays in tasks_running and
\* is resumed in every pass while it is not done, and the outcome pushed for
\* it stays in task_result.
C9_NoInheritedKill ==
    \A c \in orphans :
        /\ pushes[c] = 1 => Count(kern.task_result, c) = 1
        /\ \A j \in 1 .. Len(runs) :
              (runs[j].task.id = c /\ ~runs[j].done) =>
                  /\ InRunning(kern, c)
                  /\ (pc = "for" /\ j < i) => c \in Range(passLog)

\* the working set is finished and the orphan's outcome is still there
C9_Witness ==
    \E c \in orphans :
        /\ pushes[c] = 1
        /\ Count(kern.task_result, c) = 1
        /\ pc = "loop"

\* C10: between two steps of the scheduler, with every coroutine suspended
\* at a yield or completed, the kernel mutex is free, and no lock() of run
\* or of a coroutine ever spins.
C10_MutexFreeAtYield ==
    /\ ~kern.locked
    /\ ~kern.spin
    /\ pc # "spin"

\* one coroutine suspended at a yield, one completed, the for loop under way
C10_Witness ==
    /\ pc = "for"
    /\ i > 1
    /\ \E a, b \in 1 .. Len(runs) : runs[a].co.pc = "run" /\ runs[b].co.pc = "end"

\* ------------------------------------------------------------------ claims, users and messages
ErrOf(r) == IF r.res = "Err" THEN r.err ELSE ""
IsSend == call.op = "send"
Registered(ath) == \E j \in 1 .. Len(users) : users[j].name = ath
Sender == FindUsr(users, call.msg.ath)[1]
HashRight(m) == m.hash = Sha3(as_bytes(m.msg))
\* the signature is one the key pair of pub made of the unit
SigValid(pub, u, sig) ==
    /\ sig.enc = "sig"
    /\ sig.m = as_bytes(u)
    /\ sig.key \in PrivKeys
    /\ PubOf(sig.key) = pub
ServRegistered(name) == \E j \in 1 .. Len(Services) : Services[j].name = name
HandlerInvoked == call.ret.res = "Ok" /\ call.ret.val.kind = "hlr"
\* the message passed the first step of send
Verified ==
    /\ IsSend
    /\ Registered(call.msg.ath)
    /\ HashRight(call.msg)
    /\ SigValid(Sender.pub_key, call.msg.msg, call.msg.sign)
\* the string under key "help" of a map
HelpValue(u) ==
    IF u.t = "map" /\ as_map_find(u, "help") # <<>> THEN as_str(as_map_find(u, "help")[1])
    ELSE <<>>
BadSigned ==
    /\ IsSend
    /\ Registered(call.msg.ath)
    /\ HashRight(call.msg)
    /\ ~SigValid(Sender.pub_key, call.msg.msg, call.msg.sign)

C12_GuestMessageAccepted ==
    (Verified /\ Sender.priv_key = <<>> /\ ServRegistered(call.serv))
        => call.ret.res = "Ok"

\* C13: for a verified message to a registered service whose unit is a map
\* with "help" -> "info" or "help", send returns a thread that completes
\* with {msg: help text of the service} under the sender's athority and the
\* handler is not invoked; for "help" -> "serv" it completes with {msg: [the
\* names of the registered services in registration order]}
C13_HelpAnswered ==
    (Verified /\ ServRegistered(call.serv) /\ HelpValue(call.msg.msg) \in
            {<<"info">>, <<"help">>, <<"serv">>})
        => /\ call.ret.res = "Ok"
           /\ ~HandlerInvoked
           /\ call.out # <<>> =>
                 /\ call.out[1].res = "Ok"
                 /\ call.out[1].val # <<>>
                 /\ call.out[1].val[1].ath = call.msg.ath
                 /\ call.out[1].val[1].msg =
                      IF HelpValue(call.msg.msg) = <<"serv">>
                      THEN UnitMap(<< <<UnitStr("msg"),
                               UnitList([j \in 1 .. Len(Services) |->
                                             UnitStr(Services[j].name)])>> >>)
                      ELSE UnitMap(<< <<UnitStr("msg"),
                               UnitStr(FindServ(Services, call.serv)[1].help)>> >>)

\* the unit is a help request in the map form / is the bare string of a topic
MapTopic(u) == HelpValue(u) \in {<<"info">>, <<"help">>, <<"serv">>}
BareTopic(u) == u.t = "str" /\ u.s \in {"info", "help", "serv"}

\* C14 as stated: every verified message to a registered service whose unit
\* is not a map with "help" -> "info" / "help" / "serv" is passed to the
\* handler of the service, a bare string "help", "info" or "serv" included
C14_OtherUnitsReachHandler ==
    (Verified /\ ServRegistered(call.serv) /\ ~MapTopic(call.msg.msg))
        => HandlerInvoked

\* C14 amended: a bare string "info", "help" or "serv" is a help request
\* too and is answered by the help thread, never by the handler; of the
\* messages send returns a coroutine for, exactly those whose unit is
\* neither form of a help request get the handler's coroutine (a map whose
\* "help" value is another string or no string included); send refuses a
\* verified message to a registered service only when the help answer
\* cannot be signed as the sender
C14_NonTopicsReachHandler ==
    (Verified /\ ServRegistered(call.serv)) =>
        /\ call.ret.res = "Ok" =>
              (HandlerInvoked <=> ~(MapTopic(call.msg.msg) \/ BareTopic(call.msg.msg)))
        /\ call.ret.res = "Err" =>
              /\ ErrOf(call.ret) = ErrOf(sign(Sender, HelpUnit(FindServ(Services, call.serv)[1])))
              /\ ErrOf(call.ret) # ""

\* a verified bare string "help" was answered by the help thread
C14_Witness ==
    /\ Verified
    /\ ServRegistered(call.serv)
    /\ call.msg.msg = UnitStr("help")
    /\ call.ret.res = "Ok"
    /\ call.ret.val.kind = "help"

IsRegUsr == call.op = "reg_usr"
Appended == call.res = "Ok" /\ users = Append(call.before, call.usr)
Refused(e) == call.res = "Err" /\ call.err = e /\ users = call.before

\* C15 as stated: reg_usr(u) fails with UsrNameAlreadyReg when a registered
\* user has u's name and another pub_key, with UsrAlreadyReg when one has
\* u's name and pub_key, with UsrRegWithAnotherName when one has u's pub_key
\* under another name, and appends u exactly when no registered user shares
\* u's name or pub_key
C15_RegUsrErrors ==
    IsRegUsr =>
        /\ NameOtherKey(call.before, call.usr) => Refused("UsrNameAlreadyReg")
        /\ NameSameKey(call.before, call.usr) => Refused("UsrAlreadyReg")
        /\ OtherNameKey(call.before, call.usr) => Refused("UsrRegWithAnotherName")
        /\ Appended <=> ~(\/ NameOtherKey(call.before, call.usr)
                          \/ NameSameKey(call.before, call.usr)
                          \/ OtherNameKey(call.before, call.usr))

\* C15 amended: the three cases are tried in this order and the first that
\* applies decides, so UsrRegWithAnotherName is the error only when a
\* registered user has u's pub_key under another name and no registered
\* user has u's name; the rest as stated, and a failing call leaves the
\* users as they were
C15_RegUsrErrorsInOrder ==
    IsRegUsr =>
        /\ NameOtherKey(call.before, call.usr) => Refused("UsrNameAlreadyReg")
        /\ NameSameKey(call.before, call.usr) => Refused("UsrAlreadyReg")
        /\ (/\ OtherNameKey(call.before, call.usr)
            /\ ~NameOtherKey(call.before, call.usr)
            /\ ~NameSameKey(call.before, call.usr)) => Refused("UsrRegWithAnotherName")
        /\ Appended <=> ~(\/ NameOtherKey(call.before, call.usr)
                          \/ NameSameKey(call.before, call.usr)
                          \/ OtherNameKey(call.before, call.usr))

\* reg_usr was called with the name of one registered user and the pub_key
\* of another one, and answered UsrNameAlreadyReg
C15_Witness ==
    /\ IsRegUsr
    /\ NameOtherKey(call.before, call.usr)
    /\ OtherNameKey(call.before, call.usr)
    /\ Refused("UsrNameAlreadyReg")

\* C16: sign fails with SignFault exactly when the user has no private key
\* and returns a signature for a user with a well-formed private key; so
\* msg(ath, unit) fails (with SignFault) for a guest athority, and with
\* UsrNotFound for an athority that is not registered
C16_SignFaultIffGuest ==
    /\ call.op = "sign" =>
          /\ ErrOf(call.ret) = "SignFault" <=> call.usr.priv_key = <<>>
          /\ (call.usr.priv_key # <<>> /\ call.usr.priv_key[1] \in PrivKeys) =>
                /\ call.ret.res = "Ok"
                /\ call.ret.val.enc = "sig"
    /\ call.op = "msg" =>
          /\ ~Registered(call.ath) => ErrOf(call.ret) = "UsrNotFound"
          /\ (Registered(call.ath) /\ FindUsr(users, call.ath)[1].priv_key = <<>>) =>
                ErrOf(call.ret) = "SignFault"
          /\ (Registered(call.ath) /\ FindUsr(users, call.ath)[1].priv_key # <<>>
                  /\ FindUsr(users, call.ath)[1].priv_key[1] \in PrivKeys) =>
                /\ call.ret.res = "Ok"
                /\ call.ret.val.ath = call.ath
                /\ call.ret.val.msg = call.u

\* msg was called for a registered guest and failed with SignFault
C16_Witness ==
    /\ call.op = "msg"
    /\ Registered(call.ath)
    /\ FindUsr(users, call.ath)[1].priv_key = <<>>
    /\ ErrOf(call.ret) = "SignFault"

IsVerify == call.op = "verify"
HashGiven == call.hash = Sha3(as_bytes(call.u))
SigGiven == SigValid(call.usr.pub_key, call.u, call.sign)

\* C17 as stated: verify fails with HashVerifyFault whenever the recomputed
\* hash differs from the given one, whatever the signature is; with a
\* matching hash and a signature that does not verify it fails with
\* SignVerifyFault; it succeeds only when both match
C17_HashCheckedFirst ==
    IsVerify =>
        /\ ~HashGiven => ErrOf(call.ret) = "HashVerifyFault"
        /\ (HashGiven /\ ~SigGiven) => ErrOf(call.ret) = "SignVerifyFault"
        /\ call.ret.res = "Ok" => (HashGiven /\ SigGiven)

\* the signature string and the user's public key decode to a signature
\* and a key
Decodes == call.sign.enc = "sig" /\ call.usr.pub_key \in PubKeys

\* C17 amended: verify decodes the signature and the public key before it
\* looks at the hash: a signature that is no base64 fails with DecodeFault,
\* one that is base64 of no signature with SignVerifyFault, then a key that
\* is no base64 with DecodeFault and one that is no curve point with
\* CreatePubKeyFault, whatever the hash is.  When both decode, verify fails
\* with HashVerifyFault whenever the hash differs, whether or not the
\* signature verifies, with SignVerifyFault for a matching hash and a
\* signature that does not verify, and succeeds only when both match
C17_HashBeforeSignature ==
    IsVerify =>
        /\ (Decodes /\ ~HashGiven) => ErrOf(call.ret) = "HashVerifyFault"
        /\ (Decodes /\ HashGiven /\ ~SigGiven) => ErrOf(call.ret) = "SignVerifyFault"
        /\ call.ret.res = "Ok" <=> (HashGiven /\ SigGiven)
        /\ call.sign.enc = "notb64" => ErrOf(call.ret) = "DecodeFault"
        /\ call.sign.enc = "malformed" => ErrOf(call.ret) = "SignVerifyFault"
        /\ (call.sign.enc = "sig" /\ call.usr.pub_key = NotBase64) =>
              ErrOf(call.ret) = "DecodeFault"
        /\ (call.sign.enc = "sig" /\ call.usr.pub_key = Garbage) =>
              ErrOf(call.ret) = "CreatePubKeyFault"

\* verify was given a wrong hash together with a well-formed signature that
\* does not verify, and answered HashVerifyFault
C17_Witness ==
    /\ IsVerify
    /\ Decodes
    /\ ~HashGiven
    /\ ~SigGiven
    /\ ErrOf(call.ret) = "HashVerifyFault"

\* ------------------------------------------------------------------ claims, units
\* pair j of map m has the Str key sch
KeyIs(m, j, sch) == m[j][1].t = "str" /\ m[j][1].s = sch
\* the positions of map m whose key is the Str sch
Hits(m, sch) == {j \in 1 .. Len(m) : KeyIs(m, j, sch)}
Least(S) == CHOOSE j \in S : \A n \in S : j <= n

\* C20: as_map_find(key) on a Map returns the value of the first pair, in
\* map order, whose key is a Str equal to key; later pairs of the key and
\* pairs whose key is no Str are ignored; it returns absent when there is no
\* such pair or the unit is no Map
C20_FirstStrKeyWins ==
    call.op = "as_map_find" =>
        IF call.u.t = "map" /\ Hits(call.u.m, call.sch) # {}
        THEN call.ret = <<call.u.m[Least(Hits(call.u.m, call.sch))][2]>>
        ELSE call.ret = <<>>

\* the key was looked up in a map that has it twice with different values,
\* after a pair whose key is no Str, and the value of the first was returned
C20_Witness ==
    /\ call.op = "as_map_find"
    /\ call.u.t = "map"
    /\ Cardinality(Hits(call.u.m, call.sch)) = 2
    /\ Least(Hits(call.u.m, call.sch)) = 2
    /\ call.u.m[1][1].t # "str"
    /\ call.u.m[2][2] # call.u.m[3][2]
    /\ call.ret = <<call.u.m[2][2]>>

\* ------------------------------------------------------------------ claims, data pool
\* the units held inside the entries of the pool: the two of a Pair, the
\* msg of a Stream, the elements of the lists, the keys and values of the maps
ChildUnits(p) ==
    UNION { {p.base[j].a, p.base[j].b} : j \in {n \in 1 .. Len(p.base) : p.base[n].t = "pair"} }
      \cup {p.base[j].u : j \in {n \in 1 .. Len(p.base) : p.base[n].t = "pstream"}}
      \cup UNION { Range(p.lists[j]) : j \in 1 .. Len(p.lists) }
      \cup UNION { UNION { {p.maps[j][n][1], p.maps[j][n][2]} : n \in 1 .. Len(p.maps[j]) } :
                   j \in 1 .. Len(p.maps) }

\* C18: interning is idempotent: in every pool state, interning the unit
\* that interning u returned gives back the identical unit (the same entry
\* of the pool) and adds no entry to any table of the pool
C18_InternIdempotent ==
    call.op = "again" =>
        /\ call.ret = call.u
        /\ pool = call.before

\* a list with a nested pair was interned into a pool that held other units,
\* and the unit returned was interned again
C18_Witness ==
    /\ call.op = "again"
    /\ call.n >= 2
    /\ Val(pool, call.ret).t = "list"
    /\ \E j \in 1 .. Len(Val(pool, call.ret).l) : Val(pool, call.ret).l[j].t = "pair"

\* C19: after any sequence of intern calls, structurally equal units have
\* got the identical representative (the same entry of pool.base), also
\* where they are nested in pairs, lists, maps or streams: every unit held
\* inside an entry is itself the representative of its tree; and a
\* representative is structurally equal to the unit that was interned
C19_EqualUnitsShareEntry ==
    /\ \A e1, e2 \in call.log : e1[1] = e2[1] => e1[2] = e2[2]
    /\ \A e \in call.log : e[2].t = "h" /\ Val(pool, e[2]) = e[1]
    /\ \A c \in ChildUnits(pool) : c.t = "h"
    /\ \A j, n \in 1 .. Len(pool.base) :
          Val(pool, pool.base[j]) = Val(pool, pool.base[n]) => j = n
    /\ \A e \in call.log : \A c \in ChildUnits(pool) :
          Val(pool, c) = e[1] => c = e[2]

\* a pair the caller allocated was interned after an equal pair had been
\* interned, and an equal pair is an element of a list of the pool
C19_Witness ==
    /\ call.op = "intern"
    /\ call.seen
    /\ call.u.t = "pair"
    /\ \E j \in 1 .. Len(pool.lists) : call.ret \in Range(pool.lists[j])

\* ------------------------------------------------------------------ claims, sys.task
\* the tasks registered so far by the operator op of the task `by`, in the
\* order of their registration
KidsOf(by, op, name) ==
    SelectSeq(hist.regs, LAMBDA e : e.by = by /\ e.op = op /\ e.task.name = name)

\* the task waits in tasks_queue or is in tasks_running
Live(id) == id \in TaskIds(kern.tasks_queue) \cup TaskIds(kern.tasks_running)

\* the outcome of the task is in task_result
InResult(id) == FindFirst(kern.task_result, id) # <<>>

\* the task completed and its outcome was taken from task_result
Drained(id) == id \in DOMAIN msgs /\ ~Live(id) /\ ~InResult(id)

\* the tasks that handle a request of sys.task
TaskReqs == {e \in Range(hist.regs) : e.task.run.serv = "sys.task"}

\* the services {task: [..]} names, as strings
ChainServs(u) == [j \in 1 .. Len(ChainList(u)[1]) |-> ChainList(u)[1][j].s]

\* the unit chain starts with
ChainInput(u) == IF as_map_find(u, "msg") # <<>> THEN as_map_find(u, "msg")[1] ELSE u

\* q is the beginning of r
IsPrefix(q, r) == Len(q) <= Len(r) /\ \A j \in 1 .. Len(q) : q[j] = r[j]

\* the tasks the chain of request e registered: one per service, from the
\* first service on, each with the unit of the one before merged with its
\* answer, each registered after the one before was drained
ChainOrdered(e, kids) ==
    /\ IsPrefix([j \in 1 .. Len(kids) |-> kids[j].task.run.serv], ChainServs(e.task.run.msg))
    /\ kids # <<>> => kids[1].task.run.msg = ChainInput(e.task.run.msg)
    /\ \A j \in 1 .. (Len(kids) - 1) :
          /\ Drained(kids[j].task.id)
          /\ msgs[kids[j].task.id] # <<>>
          /\ kids[j + 1].task.run.msg =
                merge_with(kids[j].task.run.msg, msgs[kids[j].task.id][1].msg)
    /\ Cardinality({j \in 1 .. Len(kids) : Live(kids[j].task.id)}) <= 1

\* C21: the tasks of a chain {task: [s1 .. sn]} are registered one per
\* service in the order of the list; the task of s(k+1) is registered only
\* when the task of s(k) has completed and its outcome has left task_result,
\* so at most one of them is queued or running; and the unit of s(k+1) is the
\* unit of s(k) merged with the unit s(k) answered
C21_ChainOneAfterAnother ==
    \A e \in TaskReqs :
        ChainList(e.task.run.msg) # <<>> /\ LoopOp(e.task.run.msg) = ""
           /\ Operand(e.task.run.msg, "task.sep") = <<>>
        => ChainOrdered(e, KidsOf(e.task.id, "chain", "sys.task"))

\* C21, its case: the chain {task: [A B]} has registered the task of B
C21_Witness ==
    \E e \in TaskReqs :
        /\ ChainList(e.task.run.msg) # <<>>
        /\ ChainServs(e.task.run.msg) = <<"A", "B">>
        /\ Len(KidsOf(e.task.id, "chain", "sys.task")) = 2
        /\ Live(KidsOf(e.task.id, "chain", "sys.task")[2].task.id)


\* the request {task: [A B]}
ChainAB == MapOp("task", UnitList(<<UnitStr("A"), UnitStr("B")>>))

\* the tasks of the request {task: [A B]} whose outcome was pushed
ChainABDone == {e \in TaskReqs : e.task.run.msg = ChainAB /\ e.task.id \in DOMAIN msgs}

\* what the unit of message q keeps under "msg"
UnderMsg(q) == as_map_find(q[1].msg, "msg")

\* C22, as stated: with A answering {msg: "x"} and B answering {msg: "y"},
\* the request {task: [A B]} completes with a message whose unit maps "msg"
\* to the string "y"
C22_MsgIsY ==
    \A e \in ChainABDone :
        msgs[e.task.id] # <<>> /\ UnderMsg(msgs[e.task.id]) = <<UnitStr("y")>>

\* C22, amended: with A answering {msg: "x"} and B answering {msg: "y"}, the
\* request {task: [A B]} completes with a message whose unit maps "msg" to a
\* map, and this map maps "msg" to the string "y"
C22_MsgHoldsY ==
    \A e \in ChainABDone :
        /\ msgs[e.task.id] # <<>>
        /\ UnderMsg(msgs[e.task.id]) # <<>>
        /\ as_map_find(UnderMsg(msgs[e.task.id])[1], "msg") = <<UnitStr("y")>>

\* C22, its case: the task of {task: [A B]} completed with a message
C22_Witness ==
    \E e \in ChainABDone :
        /\ msgs[e.task.id] # <<>>
        /\ Len(KidsOf(e.task.id, "chain", "sys.task")) = 2
        /\ \A j \in 1 .. 2 : Drained(KidsOf(e.task.id, "chain", "sys.task")[j].task.id)

\* the task completed with an error
Failed(id) == id \in hist.errs

\* the coroutine of the task returned
RanToEnd(id) == id \in DOMAIN msgs

\* the requests task.loop with a count, and without one
LoopReqs == {e \in TaskReqs : LoopOp(e.task.run.msg) = "loop"}
InfReqs == {e \in TaskReqs : LoopOp(e.task.run.msg) = "inf"}

\* the count and the stream of a request task.loop
LoopCnt(e) == as_uint(Operand(e.task.run.msg, "task.loop")[1].a)[1]
LoopStream(e) ==
    IF LoopOp(e.task.run.msg) = "loop" THEN Operand(e.task.run.msg, "task.loop")[1].b
    ELSE Operand(e.task.run.msg, "task.loop")[1]

\* the tasks the loop of request e registered
LoopKids(e) == KidsOf(e.task.id, LoopOp(e.task.run.msg), "unit.read")

\* each task of kids but the last has completed and its outcome was taken
OneByOne(kids) == \A j \in 1 .. (Len(kids) - 1) : Drained(kids[j].task.id)

C23_WitnessInf ==
    \E e \in InfReqs : Len(LoopKids(e)) >= 2 /\ ~RanToEnd(e.task.id)

\* the requests task.sim, the Streams of their lists and the tasks they
\* registered
SimReqs == {e \in TaskReqs : ListOperand(e.task.run.msg, "task.sim") # <<>>}
SimList(e) ==
    SelectSeq(ListOperand(e.task.run.msg, "task.sim")[1], LAMBDA p : as_stream(p) # <<>>)
SimKids(e) == KidsOf(e.task.id, "", "sys.task")

\* the task was removed by a Kill, or a signal for it is pending
Signalled(id) == id \in killed \/ HasSig(kern, id)

\* the task is in tasks_queue
Queued(id) == id \in TaskIds(kern.tasks_queue)

\* the for loop of the pass is over
PassOver == pc = "for" /\ i > Len(runs)

\* C24: task.sim registers one task per Stream of its list, in the order of
\* the list and all in the segment in which the issuing task completes, none
\* awaited; the tasks wait in tasks_queue together and are in tasks_running
\* together, a pass that resumes one of them resumes the others too, and a
\* task that needs more resumes never completes before one that needs fewer
C24_SimTogether ==
    \A e \in SimReqs :
        /\ Len(SimKids(e)) \in {0, Len(SimList(e))}
        /\ (e.task.id \in DOMAIN hist.snaps) => Len(SimKids(e)) = Len(SimList(e))
        /\ SimKids(e) # <<>> => RanToEnd(e.task.id)
        /\ \A j \in 1 .. Len(SimKids(e)) :
              /\ SimKids(e)[j].task.run = Run(SimList(e)[j].u, SimList(e)[j].serv)
              /\ j > 1 => SimKids(e)[j].task.id = SimKids(e)[j - 1].task.id + 1
        /\ \A a, b \in 1 .. Len(SimKids(e)) :
              /\ ~(Queued(SimKids(e)[a].task.id) /\ InRunning(kern, SimKids(e)[b].task.id))
              /\ ( /\ PassOver
                   /\ InRunning(kern, SimKids(e)[a].task.id) /\ ~Signalled(SimKids(e)[a].task.id)
                   /\ InRunning(kern, SimKids(e)[b].task.id) /\ ~Signalled(SimKids(e)[b].task.id) )
                 => (SimKids(e)[a].task.id \in Range(passLog)
                        <=> SimKids(e)[b].task.id \in Range(passLog))
              /\ ( /\ SimList(e)[a].serv = "test.loop" /\ SimList(e)[b].serv = "test.dumb"
                   /\ RanToEnd(SimKids(e)[a].task.id) )
                 => RanToEnd(SimKids(e)[b].task.id) \/ Signalled(SimKids(e)[b].task.id)

\* C24, its case: of the two tasks of a task.sim the one of test.dumb has
\* completed, the one of test.loop, registered first, is still in
\* tasks_running, and the issuing task completed before both
C24_Witness ==
    \E e \in SimReqs :
        /\ Len(SimKids(e)) = 2
        /\ SimList(e)[1].serv = "test.loop" /\ SimList(e)[2].serv = "test.dumb"
        /\ RanToEnd(e.task.id)
        /\ RanToEnd(SimKids(e)[2].task.id)
        /\ InRunning(kern, SimKids(e)[1].task.id)
        /\ SimKids(e)[1].task.id \in Range(passLog)

\* the requests task.que, the Local Streams of their lists as TaskRun, and
\* the tasks they registered
QueReqs == {e \in TaskReqs : ListOperand(e.task.run.msg, "task.que") # <<>>}
QueLocal(e) ==
    SelectSeq(ListOperand(e.task.run.msg, "task.que")[1], LAMBDA p : ReadKind(p) = "child")
QueRuns(e) == [j \in 1 .. Len(QueLocal(e)) |-> Run(QueLocal(e)[j].u, QueLocal(e)[j].serv)]
QueKids(e) == KidsOf(e.task.id, "que", "unit.read")

StkReqs == {e \in TaskReqs : TaskOp(e.task.run.msg) = "stk"}
StkList(e) == StkOperand(e.task.run.msg)[1].u.l
StkServ(e) == StkOperand(e.task.run.msg)[1].serv
StkSends(e) == KidsOf(e.task.id, "stk", "sys.task")
StkReads(e) == KidsOf(e.task.id, "stk", "unit.read")

\* the task snd sends what element p was read as to the service
SendsElem(e, snd, p) ==
    /\ snd.task.run.serv = StkServ(e)
    /\ IF ReadKind(p) = "plain" THEN snd.task.run.msg = p
       ELSE \E r \in Range(StkReads(e)) :
               /\ r.task.run = Run(p.u, p.serv)
               /\ Drained(r.task.id)
               /\ msgs[r.task.id] # <<>>
               /\ snd.task.run.msg = msgs[r.task.id][1].msg

\* one task per element, in the order of the list, one after the other
StkInOrder(e) ==
    /\ Len(StkSends(e)) <= Len(StkList(e))
    /\ \A j \in 1 .. Len(StkSends(e)) : SendsElem(e, StkSends(e)[j], StkList(e)[j])
    /\ OneByOne(StkSends(e))

\* the request completed and no task of it, read or sent, ended with an error
StkAllOk(e) ==
    /\ RanToEnd(e.task.id) /\ ~Failed(e.task.id)
    /\ \A r \in Range(StkSends(e)) \cup Range(StkReads(e)) : ~Failed(r.task.id)

\* an element of the list is read as absent: a Remote Stream, or a Stream
\* whose task completed without a message
StkAbsent(e) ==
    \/ \E j \in 1 .. Len(StkList(e)) : ReadKind(StkList(e)[j]) = "absent"
    \/ \E r \in Range(StkReads(e)) :
          r.task.id \in DOMAIN msgs /\ ~Failed(r.task.id) /\ msgs[r.task.id] = <<>>

C26_WitnessRead ==
    \E e \in StkReqs :
        /\ StkAllOk(e)
        /\ StkReads(e) # <<>>
        /\ Len(StkSends(e)) = 2

\* the requests task.loop with a count, task.que and task.stk, and the tasks
\* they registered and awaited
AwaitReqs == LoopReqs \cup QueReqs \cup StkReqs
AwaitedKids(e) ==
    SelectSeq(hist.regs, LAMBDA r : r.by = e.task.id /\ r.op \in {"loop", "que", "stk"})

\* the athorities, other than the caller's, of the messages the awaited
\* tasks of request e returned
NewAths(e) ==
    {msgs[r.task.id][1].ath : r \in {q \in Range(AwaitedKids(e)) :
        /\ q.task.id \in DOMAIN msgs
        /\ msgs[q.task.id] # <<>>
        /\ msgs[q.task.id][1].ath # e.task.usr}}

\* C27: when a task awaited by task.loop, task.que or task.stk returned a
\* message under an athority that is not the caller's, the message sys.task
\* returns for the request is signed under the new athority and not under
\* the caller's; when no task changed the athority, a message returned is
\* signed under the caller's
C27_FinalAthIsNew ==
    \A e \in AwaitReqs :
        RanToEnd(e.task.id) /\ ~Failed(e.task.id) =>
            IF NewAths(e) # {}
            THEN msgs[e.task.id] # <<>> /\ msgs[e.task.id][1].ath \in NewAths(e)
            ELSE msgs[e.task.id] # <<>> => msgs[e.task.id][1].ath = e.task.usr

\* C27, the part the code keeps: when no awaited task changed the athority,
\* a message the request returns is signed under the caller's
C27_UnchangedAthKept ==
    \A e \in AwaitReqs :
        RanToEnd(e.task.id) /\ NewAths(e) = {} /\ msgs[e.task.id] # <<>>
            => msgs[e.task.id][1].ath = e.task.usr

\* the segment just run handled a request ("kill", id) of sys.task
KillHandled ==
    /\ hist.seg.id # NoId
    /\ hist.seg.task.run.serv = "sys.task"
    /\ KillId(hist.seg.task.run.msg) # <<>>

\* C28: a request ("kill", id) of sys.task appends exactly one entry
\* (id, Kill) to tasks_signals and leaves tasks_queue, tasks_running and
\* task_result as they are; it completes with Ok and its message for every
\* id, with or without a task of this id
C28_KillAppendsSignal ==
    KillHandled =>
        /\ hist.seg.after.tasks_signals =
              Append(hist.seg.before.tasks_signals, <<KillId(hist.seg.task.run.msg)[1], Kill>>)
        /\ hist.seg.after.tasks_queue = hist.seg.before.tasks_queue
        /\ hist.seg.after.tasks_running = hist.seg.before.tasks_running
        /\ hist.seg.after.task_result = hist.seg.before.task_result
        /\ hist.seg.st = "Ok"
        /\ msgs[hist.seg.id] # <<>>
        /\ msgs[hist.seg.id][1].msg = hist.seg.task.run.msg

\* C28, its case: a kill for an id no task has was handled
C28_Witness ==
    /\ KillHandled
    /\ KillId(hist.seg.task.run.msg)[1] >= hist.seg.before.last_task_id
    /\ Len(hist.seg.after.tasks_signals) = 1

\* C28, the case of an id a running task has
C28_WitnessRunning ==
    /\ KillHandled
    /\ KillId(hist.seg.task.run.msg)[1] \in TaskIds(hist.seg.before.tasks_running)
    /\ KillId(hist.seg.task.run.msg)[1] # hist.seg.id

\* the tasks that handled a request get.all resp. get.run and completed
GetAllDone ==
    {e \in TaskReqs : e.task.run.msg = UnitStr("get.all") /\ RanToEnd(e.task.id)}
GetRunDone ==
    {e \in TaskReqs : e.task.run.msg = UnitStr("get.run") /\ RanToEnd(e.task.id)}

\* the unit {msg: u}
MsgOf(u) == UnitMap(<< <<UnitStr("msg"), u>> >>)

\* C29: get.all answers one entry (id, name, usr, par.id) for each task that
\* was in tasks_running when the request was handled, in the order of
\* tasks_running; get.run answers the entry of the task that handles the
\* request, whose id was curr_task_id and whose par.id is the id of the task
\* that registered it
C29_GetAllGetRun ==
    /\ \A e \in GetAllDone :
          /\ e.task.id \in DOMAIN hist.snaps
          /\ msgs[e.task.id] # <<>>
          /\ msgs[e.task.id][1].msg =
                MsgOf(UnitList([j \in 1 .. Len(hist.snaps[e.task.id]) |->
                                   TaskEntry(hist.snaps[e.task.id][j])]))
    /\ \A e \in GetRunDone :
          /\ msgs[e.task.id] # <<>>
          /\ msgs[e.task.id][1].msg = MsgOf(TaskEntry(e.task))
          /\ e.by # NoId => e.task.parent_id = e.by
    /\ \A e \in TaskReqs :
          hist.seg.id = e.task.id => hist.seg.after.curr_task_id = e.task.id

\* C29, its case: get.all was answered with two or more tasks running
C29_Witness ==
    \E e \in GetAllDone : Len(hist.snaps[e.task.id]) >= 2

\* C29, the cases of get.run: the request was handled by a task that a task
\* other than the first registered, and by a task that was not the first of
\* tasks_running
C29_WitnessRun ==
    \E e \in GetRunDone : e.by # NoId /\ e.by # 0

C29_WitnessRunLater ==
    \E e \in GetRunDone : hist.snaps[e.task.id][1].id # e.task.id

\* the unit is a Stream with a Remote address
IsRemote(u) == as_stream(u) # <<>> /\ u.addr = Remote

\* the Remote Streams request e hands to task.loop, task.sep, task.sim,
\* task.que or task.stk
RemoteStreams(e) ==
    {p \in ( (IF Operand(e.task.run.msg, "task.sep") # <<>>
              THEN {Operand(e.task.run.msg, "task.sep")[1]} ELSE {})
             \cup (IF LoopOp(e.task.run.msg) # "" THEN {LoopStream(e)} ELSE {})
             \cup (IF ListOperand(e.task.run.msg, "task.sim") # <<>>
                   THEN Range(ListOperand(e.task.run.msg, "task.sim")[1]) ELSE {})
             \cup (IF ListOperand(e.task.run.msg, "task.que") # <<>>
                   THEN Range(ListOperand(e.task.run.msg, "task.que")[1]) ELSE {})
             \cup (IF TaskOp(e.task.run.msg) = "stk"
                   THEN {StkOperand(e.task.run.msg)[1]} \cup Range(StkList(e)) ELSE {}) ) :
        IsRemote(p)}

\* a task request e registered runs on the service of Stream p
ServedBy(e, p) ==
    \E r \in Range(hist.regs) : r.by = e.task.id /\ r.task.run.serv = p.serv

\* C30: a Stream whose address is Remote never causes a task to be
\* registered: reading it gives the absent result, and task.sep, task.sim
\* and task.stk register no local task for it
C30_RemoteNeverRegistered ==
    \A e \in TaskReqs : \A p \in RemoteStreams(e) : ~ServedBy(e, p)

\* C30, the part the reads keep: task.loop and task.que, which read their
\* Streams, register no task for a Remote one
C30_RemoteNotRead ==
    \A e \in LoopReqs \cup InfReqs \cup QueReqs :
        \A p \in RemoteStreams(e) : ~ServedBy(e, p)

\* C30, the reads' case: a task.que with a Remote Stream in its list completed
C30_WitnessRead ==
    \E e \in QueReqs : RemoteStreams(e) # {} /\ RanToEnd(e.task.id)

\* the requests of sys.task that are a Local Stream, and the task task_hlr
\* registered to read such a request
StreamReqs == {e \in TaskReqs : ReadKind(e.task.run.msg) = "child"}
ReadKids(e) == KidsOf(e.task.id, "rd", "unit.read")

\* the read of request e returned the message of the Stream's service, and
\* no operator of sys.task applies to its unit
ReadAs(e) ==
    IF ReadKids(e) # <<>> /\ ReadKids(e)[1].task.id \in DOMAIN msgs
       /\ msgs[ReadKids(e)[1].task.id] # <<>>
       /\ TaskOp(msgs[ReadKids(e)[1].task.id][1].msg) = "echo"
    THEN <<msgs[ReadKids(e)[1].task.id][1].msg>>
    ELSE <<>>

\* C31: a request of sys.task that is a Stream unit@serv, to which no
\* operator applies, completes with a message that carries what the service
\* of the Stream returned, and not with the request as it came
C31_StreamResultReturned ==
    \A e \in StreamReqs :
        RanToEnd(e.task.id) /\ ~Failed(e.task.id) /\ ReadAs(e) # <<>> =>
            /\ msgs[e.task.id] # <<>>
            /\ msgs[e.task.id][1].msg # e.task.run.msg
            /\ \/ msgs[e.task.id][1].msg = ReadAs(e)[1]
               \/ as_map_find(msgs[e.task.id][1].msg, "msg") = ReadAs(e)

\* C31, what the code does: the request comes back as it was sent
C31_StreamRequestEchoed ==
    \A e \in StreamReqs :
        RanToEnd(e.task.id) /\ ~Failed(e.task.id) /\ ReadAs(e) # <<>> =>
            /\ msgs[e.task.id] # <<>>
            /\ msgs[e.task.id][1].msg = e.task.run.msg
            /\ Len(ReadKids(e)) = 1
            /\ Drained(ReadKids(e)[1].task.id)

\* C31, its case: the request a@A completed after A answered
C31_Witness ==
    \E e \in StreamReqs :
        /\ e.task.run.msg = Loc(UnitStr("a"), "A")
        /\ RanToEnd(e.task.id)
        /\ ReadAs(e) = <<UnitMap(<< <<UnitStr("msg"), UnitStr("x")>> >>)>>

\* the first task that sends the guest login {ath:gst pub:..} to sys.usr
GuestTasks == SelectSeq(hist.regs, LAMBDA r : r.task.run = Run(GuestTest, "sys.usr"))
GuestDone == GuestTasks # <<>> /\ RanToEnd(GuestTasks[1].task.id)

\* C32: a request of sys.usr with ath and pub and no priv registers a guest
\* and its task completes with Ok and a message of this user; it does not end
\* with an error after the user was added
C32_GuestLoginSucceeds ==
    GuestDone =>
        /\ ~Failed(GuestTasks[1].task.id)
        /\ msgs[GuestTasks[1].task.id] # <<>>
        /\ msgs[GuestTasks[1].task.id][1].ath = "gst"

\* C32, what the code does: the guest is in the registry and the task ended
\* with an error
C32_GuestLoginFails ==
    GuestDone =>
        /\ Failed(GuestTasks[1].task.id)
        /\ UsrGuest("gst", "pubB") \in Range(users)

\* C32, its case: the task of the guest login ran to its end
C32_Witness == GuestDone

\* ---- claims, the registries
\* no two entries of q have the same value of f
Distinct(q, f(_)) == \A a, b \in 1 .. Len(q) : a # b => f(q[a]) # f(q[b])

\* C33: after any sequence of reg_usr calls no two registered users share a
\* name and no two share a pub_key, and a reg_usr call that fails leaves the
\* users as they were; after any sequence of reg_serv calls the names of the
\* services are distinct, and a call that fails with ServAlreadyReg leaves
\* the services as they were
C33_RegistriesDistinct ==
    /\ Distinct(users, LAMBDA u : u.name)
    /\ Distinct(users, LAMBDA u : u.pub_key)
    /\ (call.op = "reg_usr" /\ call.res = "Err") => users = call.before
    /\ (call.op = "reg_usr" /\ call.res = "Ok") => users = Append(call.before, call.usr)
    /\ Distinct(services, LAMBDA s : s.name)
    /\ (call.op = "reg_serv" /\ call.res = "Err") =>
          call.err = "ServAlreadyReg" /\ services = call.before
    /\ (call.op = "reg_serv" /\ call.res = "Ok") => services = Append(call.before, call.serv)

\* C33, its case: with users and services registered, reg_serv refused a
\* service whose name is registered with another help text, after reg_usr
\* had refused a user
C33_Witness ==
    /\ Len(users) >= 2
    /\ Len(services) >= 2
    /\ call.op = "reg_serv"
    /\ call.res = "Err"
    /\ call.serv \notin Range(services)

\* C33, the case of reg_usr: a user with the pub_key of a registered user
\* under another name was refused
C33_WitnessUsr ==
    /\ call.op = "reg_usr"
    /\ call.res = "Err"
    /\ OtherNameKey(call.before, call.usr)
    /\ ~NameOtherKey(call.before, call.usr)

\* C34: while a task is resumed curr_task_id is its id and the task is in
\* tasks_running, so get_task_running finds it from the start of the segment
\* to its end; a task registered by the segment has the id of the resumed
\* task as its parent_id
C34_ResumedIsCurrent ==
    /\ hist.seg.id # NoId =>
          /\ hist.seg.after.curr_task_id = hist.seg.id
          /\ hist.seg.id \in TaskIds(hist.seg.before.tasks_running)
          /\ hist.seg.id \in TaskIds(hist.seg.after.tasks_running)
          /\ get_task_running(hist.seg.after) # <<>>
          /\ get_task_running(hist.seg.after)[1].id = hist.seg.id
    /\ \A r \in Range(hist.regs) : r.by # NoId => r.task.parent_id = r.by

\* C34, its case: a task other than task 0 was resumed, after another task
\* had set curr_task_id, and registered a task
C34_Witness ==
    /\ hist.seg.id \notin {NoId, 0}
    /\ hist.seg.before.curr_task_id # hist.seg.id
    /\ \E r \in Range(hist.regs) : r.by = hist.seg.id /\ r.task.parent_id = hist.seg.id

\* the tasks registered so far
AllTasks == {r.task : r \in Range(hist.regs)}

RECURSIVE Up(_, _)
\* the task reached from the task id by n steps to the parent
Up(id, n) ==
    IF n = 0 THEN id
    ELSE Up((CHOOSE t \in AllTasks : t.id = id).parent_id, n - 1)

RECURSIVE TreeIds(_)
RECURSIVE ForestIds(_)
\* the ids of the entries of a tree of get, in the order of the tree
TreeIds(u) ==
    <<u.m[1][2].v>> \o ForestIds(IF u.m[4][2].t = "list" THEN u.m[4][2].l ELSE <<>>)
ForestIds(l) ==
    IF l = <<>> THEN <<>> ELSE TreeIds(Head(l)) \o ForestIds(Tail(l))

RECURSIVE TreeCut(_)
\* the tree has a subtree the recursion did not finish
TreeCut(u) ==
    \/ u.m[4][2] = Deeper
    \/ /\ u.m[4][2].t = "list"
       /\ \E j \in 1 .. Len(u.m[4][2].l) : TreeCut(u.m[4][2].l[j])

\* the get.tree requests that ran to their end
GetTreeDone ==
    {e \in TaskReqs : e.task.run.msg = UnitStr("get.tree") /\ RanToEnd(e.task.id)}

\* C35: a task registered by a running task has a parent_id below its id, a
\* task registered before the scheduler starts has parent_id 0; from every
\* task the parents lead to task 0; the tree of get.tree is built to its end,
\* is the answer, and lists no task twice and only running tasks
C35_ParentBelowChild ==
    /\ \A r \in Range(hist.regs) :
          IF r.by = NoId THEN r.task.parent_id = 0 ELSE r.task.parent_id < r.task.id
    /\ \A t \in AllTasks : Up(t.id, Cardinality(AllTasks)) = 0
    /\ \A e \in GetTreeDone :
          LET tree == TaskTree(hist.snaps[e.task.id])
          IN  /\ msgs[e.task.id] # <<>>
              /\ msgs[e.task.id][1].msg = MsgOf(tree)
              /\ ~TreeCut(tree)
              /\ Distinct(TreeIds(tree), LAMBDA id : id)
              /\ Range(TreeIds(tree)) \subseteq TaskIds(hist.snaps[e.task.id])

\* C35, its case: get.tree answered a tree of three levels
C35_Witness ==
    \E e \in GetTreeDone :
        /\ Len(TreeIds(TaskTree(hist.snaps[e.task.id]))) >= 3
        /\ \E r \in Range(hist.regs) : r.task.id = e.task.id /\ r.task.parent_id \notin {0, NoId}


\* the signals posted for an id no task had yet
EarlySigs == {s \in Range(hist.sigs) : s.id >= s.last}

\* C36: a Kill posted for an id no task has yet stays in tasks_signals until
\* the scheduler meets a task of that id; that task is killed at its first
\* turn: it is never resumed, and no outcome of it comes to task_result
C36_EarlyKillKept ==
    \A s \in EarlySigs :
        /\ HasSig(kern, s.id) \/ s.id \in killed
        /\ s.id \notin DOMAIN hist.snaps
        /\ pushes[s.id] = 0
        /\ s.id \notin SeqIds(kern.task_result)
        /\ s.id \notin DOMAIN msgs
        /\ \A j \in 1 .. Len(runs) :
              runs[j].task.id = s.id =>
                 IF runs[j].done
                 THEN s.id \in killed /\ ~InRunning(kern, s.id) /\ ~HasSig(kern, s.id)
                 ELSE j >= i /\ runs[j].co.pc = "start" /\ HasSig(kern, s.id)

\* C36, its case: a task was registered with the id of an earlier Kill and
\* was killed
C36_Witness ==
    \E s \in EarlySigs :
        /\ s.id \in killed
        /\ \E r \in Range(hist.regs) : r.task.id = s.id /\ r.by # NoId
        /\ s.id \notin DOMAIN hist.snaps

\* the tasks no task awaits: those registered before the scheduler starts,
\* and those task.sep and task.sim registered
Unawaited ==
    {r \in Range(hist.regs) : r.by = NoId \/ (r.op = "" /\ r.task.name = "sys.task")}

\* C37: task_result has at most one outcome of an id; the ids in
\* task_result, tasks_queue and tasks_running are below last_task_id; no id
\* is in tasks_running twice; and the outcome of a completed task that no
\* task awaits is in task_result
C37_ResultsKept ==
    /\ \A id \in SeqIds(kern.task_result) : Count(kern.task_result, id) = 1
    /\ \A id \in SeqIds(kern.task_result) \cup TaskIds(kern.tasks_queue)
                    \cup TaskIds(kern.tasks_running) : id < kern.last_task_id
    /\ Distinct(kern.tasks_running, LAMBDA t : t.id)
    /\ \A r \in Unawaited : RanToEnd(r.task.id) => InResult(r.task.id)

\* C37, its case: the outcomes of a root task and of a child of task.sep or
\* task.sim are in task_result
C37_Witness ==
    /\ \E r \in Unawaited : r.by = NoId /\ RanToEnd(r.task.id)
    /\ \E r \in Unawaited : r.by # NoId /\ RanToEnd(r.task.id)
    /\ Len(kern.task_result) >= 2

\* C37, the case of an outcome kept while another is taken: a root task
\* completed after the outcome of the task it awaited left task_result
C37_WitnessTaken ==
    /\ \E r \in Unawaited : r.by = NoId /\ RanToEnd(r.task.id)
    /\ \E r \in Range(hist.regs) : r \notin Unawaited /\ Drained(r.task.id)

\* the tasks chain or task.stk of request e registered and awaited
PipedKids(e) ==
    SelectSeq(hist.regs, LAMBDA r : r.by = e.task.id /\ r.op \in {"chain", "stk"})

\* the task completed with Err and the outcome was taken from task_result
ErrTaken(id) == Failed(id) /\ ~InResult(id)

\* C38: when chain or task.stk took the Err of a task it awaited, the task of
\* the request completed with that Err, and the failed task is the last one
\* the operator registered
C38_ErrStopsOperator ==
    \A e \in TaskReqs :
        \A j \in 1 .. Len(PipedKids(e)) :
            ErrTaken(PipedKids(e)[j].task.id) =>
               /\ Failed(e.task.id)
               /\ hist.errv[e.task.id] = hist.errv[PipedKids(e)[j].task.id]
               /\ j = Len(PipedKids(e))

\* C38, its case: the first task of a chain of two services failed
C38_Witness ==
    \E e \in TaskReqs :
        /\ Len(ChainList(e.task.run.msg)) = 1
        /\ Len(ChainList(e.task.run.msg)[1]) = 2
        /\ Len(PipedKids(e)) = 1
        /\ ErrTaken(PipedKids(e)[1].task.id)
        /\ Failed(e.task.id)

\* C38, the case of task.stk: the task of the first of two elements failed
C38_WitnessStk ==
    \E e \in StkReqs :
        /\ Len(PipedKids(e)) = 1
        /\ PipedKids(e)[1].task.name = "sys.task"
        /\ ErrTaken(PipedKids(e)[1].task.id)
        /\ Failed(e.task.id)

\* the requests task.sep
SepReqs == {e \in TaskReqs : TaskOp(e.task.run.msg) = "sep"}

\* the requests whose operator ran to its end and returned the athority:
\* task.loop with a count, task.sep and task.que that completed without an
\* Err, and task.stk that did so with no element read as absent
Applied ==
    {e \in LoopReqs \cup SepReqs \cup QueReqs \cup StkReqs :
        /\ RanToEnd(e.task.id)
        /\ ~Failed(e.task.id)
        /\ e \in StkReqs => ~StkAbsent(e)}

\* C39: when task.loop with a count, task.sep, task.que or task.stk applied
\* and no awaited task changed the athority, the task of the request
\* completed with Ok(None): its outcome has no message, and while it is in
\* task_result it is an Ok
C39_AppliedGivesNone ==
    \A e \in Applied :
        NewAths(e) = {} =>
           /\ msgs[e.task.id] = <<>>
           /\ InResult(e.task.id) => FindFirst(kern.task_result, e.task.id)[2] = "Ok"

\* C39, its case: a task.loop awaited by another request completed without a
\* message after its own task had answered, and the request that awaited it
\* went on to its end
C39_Witness ==
    \E e \in Applied :
        /\ e \in LoopReqs
        /\ e.by # NoId
        /\ NewAths(e) = {}
        /\ \E r \in Range(AwaitedKids(e)) : Drained(r.task.id) /\ msgs[r.task.id] # <<>>
        /\ Drained(e.task.id)
        /\ RanToEnd(e.by)

\* C39, the cases of task.sep, task.que and task.stk
C39_WitnessSep == \E e \in Applied : e \in SepReqs /\ InResult(e.task.id)
C39_WitnessQue ==
    \E e \in Applied : e \in QueReqs /\ NewAths(e) = {} /\ AwaitedKids(e) # <<>>
C39_WitnessStk ==
    \E e \in Applied : e \in StkReqs /\ NewAths(e) = {} /\ AwaitedKids(e) # <<>>

\* ---- Kern::run, the end of the work
\* Kern::run left the pass loop with every task done, or goes through a pass
\* with no task
Idle ==
    /\ kern.tasks_queue = <<>>
    /\ \/ pc = "loop" /\ AllDone(runs)
       \/ pc = "for" /\ runs = <<>>

\* the fields of the kernel the scheduler and the tasks write
Work(k) == <<k.tasks_running, k.task_result, k.tasks_signals, k.last_task_id>>

\* C40: Kern::run does not return; when it leaves the pass loop tasks_queue
\* is empty; once every task is done and tasks_queue is empty the scheduler
\* goes on, from the head of the outer loop through a pass with no task and
\* back, no task is running, and tasks_running, task_result, tasks_signals
\* and last_task_id stay as they are
C40_RunNeverReturns ==
    /\ [](pc # "ret")
    /\ [](Idle => kern.tasks_running = <<>> /\ ENABLED <<Drain \/ EndPass>>_vars)
    /\ [][(pc = "for" /\ pc' = "loop") => kern'.tasks_queue = <<>>]_vars
    /\ [][Idle => Idle' /\ runs' = <<>> /\ Work(kern') = Work(kern)]_vars

\* C40, its case: every task of a working set of two is done, their outcomes
\* and a signal no task took are left, and the scheduler is in a pass with no
\* task
C40_Witness ==
    /\ Idle
    /\ pc = "for"
    /\ Len(kern.task_result) >= 2
    /\ kern.tasks_signals # <<>>
    /\ kern.last_task_id >= 2

====
